---- MODULE Spec2Model ----
(***************************************************************************)
(* pretalx-rt: synchronisation of pretalx submissions and mails with       *)
(* tickets of a Request Tracker (RT) instance.                             *)
(*                                                                         *)
(* The model follows src/pretalx_rt/rt_sync.py (class RTSync),             *)
(* src/pretalx_rt/signals.py (the signal handlers and their helper        *)
(* functions) and src/pretalx_rt/models.py (the Ticket table).             *)
(*                                                                         *)
(* Conventions                                                             *)
(*  - The RT server is the variable rt: the sequence of the remote         *)
(*    tickets, a ticket's remote id being its index.  Every remote call    *)
(*    may raise (transport or authorisation error): each action that       *)
(*    issues one takes its outcome ok from BOOLEAN.                        *)
(*  - The Ticket table is the sequence tickets, a row's primary key being  *)
(*    its index (AutoField).  signals.py addresses the remote ticket by    *)
(*    ticket.id: it was written against the table of                       *)
(*    migrations/0001_initial.py, whose primary key id IS the RT ticket    *)
(*    number; models.py calls that column rt_id.  The model reads          *)
(*    ticket.id in signals.py as the row's rt_id.                          *)
(*  - Time is the integer clock, in minutes; now() reads it.               *)
(*  - Strings that the code formats are sequences of one-character         *)
(*    strings.                                                             *)
(***************************************************************************)
EXTENDS Integers, Sequences, FiniteSets, TLC

VARIABLES
    rt,          \* RT server: sequence of remote tickets (index = remote id)
    tickets,     \* table pretalx_rt_ticket: sequence of rows (index = pk)
    mailSent,    \* QueuedMail.sent of every mail (Null = not sent)
    mailLinks,   \* Ticket.mails (many-to-many): set of <<ticket pk, mail>>
    tasks,       \* celery queue: the pending ticket_pull_task invocations
    clock,       \* wall clock, minutes
    nullsFirst,  \* whether the database sorts NULL first in ascending order
    am,          \* the add_mail_to_ticket / add_comment_to_ticket in flight
    sq,          \* the sync_queue pass in flight
    pp,          \* the periodic pass in flight
    hd,          \* the dispatch handler in flight
    hd2,         \* a second state-change handler, running next to the first
    sm,          \* the RTBackend.send_messages call in flight
    pl,          \* the ticket_pull_task in flight
    last,        \* what the latest step did (an observation, read by no action)
    call         \* the call of a pure function: its arguments and its result

vars == <<rt, tickets, mailSent, mailLinks, tasks, clock, nullsFirst,
          am, sq, pp, hd, hd2, sm, pl, last, call>>

----------------------------------------------------------------------------
\* Bounds of the model

\* the number of tickets the RT server holds when it refuses to create another
MaxRt == 2
\* the number of remote tickets in the queue a sync_queue pass is checked on
MaxQueue == 3
\* the last minute the clock reaches
MaxClock == 2
\* the greatest length of a user name given to requestors
MaxName == 2
\* the greatest number of users given to requestors
MaxUsers == 2
\* the largest number of pending pull tasks
MaxTasks == 1

\* EventSettings.sync_interval of the events, minutes
SyncInterval == 1

\* timedelta(minutes=1): the time budget of a periodic pass
BudgetMinutes == 1

\* sync_timestamp IS NULL / sent IS NULL
Null == -1

----------------------------------------------------------------------------
\* The host application's read models (spec section 6): static data

Events == {"e1", "e2"}

\* Event.plugin_list: the integration is enabled for e1 and disabled for e2
plugin_list == [e \in Events |-> IF e = "e1" THEN {"pretalx_rt"} ELSE {}]

\* EventSettings of every event
rt_settings ==
    [e \in Events |->
        [queue              |-> IF e = "e1" THEN "q1" ELSE "q2",
         initial_status     |-> "resolved",
         custom_field_id    |-> "Pretalx ID",
         custom_field_state |-> "Pretalx State",
         is_mail_html       |-> TRUE,
         sync_interval      |-> SyncInterval]]

\* users: name and email, character by character
Users ==
    [u1 |-> [name |-> <<"A", "@", "B">>, email |-> <<"a", "@", "b">>],
     u2 |-> [name |-> <<"C">>,           email |-> <<"c", "@", "d">>]]

NoSubmission == "none"
SubmissionIds == {"S1", "S2", "S3"}

\* Submission: code, title, state, event, speakers
Submissions ==
    [s \in SubmissionIds |->
        [code     |-> s,
         title    |-> IF s = "S1" THEN "T1" ELSE IF s = "S2" THEN "T2" ELSE "T3",
         state    |-> "submitted",
         event    |-> IF s = "S3" THEN "e2" ELSE "e1",
         speakers |-> IF s = "S2" THEN <<Users.u2>> ELSE <<Users.u1>>]]

MailIds == {"m1", "m2", "m3", "m4"}

\* QueuedMail: subject, recipients, associated submissions, event.  m1 is about
\* one submission, m2 about none, m3 about two; m4 is a mail of event e2.
Mails ==
    [m \in MailIds |->
        [subject     |-> IF m = "m1" THEN "M1" ELSE "M2",
         to_users    |-> <<Users.u2, Users.u1>>,
         submissions |-> CASE m = "m1" -> {"S1"}
                           [] m = "m2" -> {}
                           [] m = "m3" -> {"S1", "S2"}
                           [] OTHER    -> {"S3"},
         event       |-> IF m = "m4" THEN "e2" ELSE "e1"]]

----------------------------------------------------------------------------
\* Field Mapper

RECURSIVE replace_at(_)
\* str.replace('@', '(at)') on a string given character by character
replace_at(s) ==
    IF s = <<>> THEN <<>>
    ELSE (IF Head(s) = "@" THEN <<"(", "a", "t", ")">> ELSE <<Head(s)>>)
         \o replace_at(Tail(s))

\* requestors escaping the name of the first user only
requestors_first_only(users) ==
    [i \in 1..Len(users) |->
        (IF i = 1 THEN replace_at(users[i].name) ELSE users[i].name)
        \o <<" ", "<">> \o users[i].email \o <<">">>]

\* RTSync.requestors / signals.requestors:
\*   [f"{user.name.replace('@', '(at)')} <{user.email}>" for user in users]
requestors(users) ==
    [i \in 1..Len(users) |->
        replace_at(users[i].name) \o <<" ", "<">> \o users[i].email \o <<">">>]

RECURSIVE first_value(_, _)
\* the loop of RTSync.get_custom_field over the list of custom fields
first_value(fields, field_name) ==
    IF fields = <<>> THEN ""
    ELSE IF Head(fields).name = field_name /\ Head(fields).values # <<>>
         THEN Head(fields).values[1]
         ELSE first_value(Tail(fields), field_name)

\* RTSync.get_custom_field(rt_ticket, field_name): the first value of the
\* named custom field; None ("" here: the caller tests `not pretalx_id`,
\* which None and the empty string both satisfy) if absent or empty
get_custom_field(rt_ticket, field_name) ==
    first_value(rt_ticket.CustomFields, field_name)

----------------------------------------------------------------------------
\* The RT server (Remote Client contract, spec section 4.1)

RtStatuses == {"new", "open", "resolved"}

\* the value of the CustomFields list of a remote ticket holding `code` in the
\* submission-code field ("" = the field has no value)
CustomFieldsOf(e, code, state) ==
    <<[name   |-> rt_settings[e].custom_field_id,
       values |-> IF code = "" THEN <<>> ELSE <<code>>],
      [name   |-> rt_settings[e].custom_field_state,
       values |-> IF state = "" THEN <<>> ELSE <<state>>]>>

\* a remote ticket as create_ticket(queue, subject, Requestor, Status, ...) makes it
NewRemote(queue, subject, requestor, status, custom_fields) ==
    [Queue        |-> queue,
     Subject      |-> subject,
     Status       |-> status,
     Requestor    |-> requestor,
     CustomFields |-> custom_fields]

RtIds == 1..Len(rt)

\* edit_ticket(id, **fields): the named fields are overwritten
EditRemote(t, fields) ==
    [f \in DOMAIN t |-> IF f \in DOMAIN fields THEN fields[f] ELSE t[f]]

\* one entry of an operation's record of the remote calls it issued
Call(name, rid, ok, fields) ==
    [c |-> name, rid |-> rid, ok |-> ok, fields |-> fields]

NoFields == [x \in {} |-> x]

----------------------------------------------------------------------------
\* The Ticket table (models.py)

\* Ticket(event=..., rt_id=..., submission=...): an unsaved instance (pk 0)
NewTicket(event, rt_id, submission) ==
    [pk             |-> 0,
     event          |-> event,
     rt_id          |-> rt_id,
     submission     |-> submission,
     subject        |-> "",
     status         |-> "",
     queue          |-> "",
     sync_timestamp |-> Null]

Pks == 1..Len(tickets)

\* a table without the unique constraint
submission_not_unique(rows, pk, s) == TRUE

\* OneToOneField(submission, null=True): the unique constraint on
\* submission_id.  TRUE iff no row other than pk links submission s.
submission_unique(rows, pk, s) ==
    \/ s = NoSubmission
    \/ \A k \in 1..Len(rows) : k # pk => rows[k].submission # s

\* Model.save(): INSERT of an unsaved instance (the AutoField gives the next
\* pk, auto_now_add stamps sync_timestamp), UPDATE of every column otherwise.
\* ok = FALSE is the IntegrityError of the unique constraint.
\* a save that removes the row it should rewrite
save_deleting(rows, inst, now) ==
    IF ~submission_unique(rows, inst.pk, inst.submission)
    THEN [ok |-> FALSE, rows |-> rows, pk |-> inst.pk]
    ELSE IF inst.pk = 0
         THEN [ok   |-> TRUE,
               rows |-> Append(rows, [inst EXCEPT !.pk = Len(rows) + 1,
                                                  !.sync_timestamp = now]),
               pk   |-> Len(rows) + 1]
         ELSE [ok   |-> TRUE,
               rows |-> SelectSeq(rows, LAMBDA r : r.pk # inst.pk),
               pk   |-> inst.pk]

save(rows, inst, now) ==
    IF ~submission_unique(rows, inst.pk, inst.submission)
    THEN [ok |-> FALSE, rows |-> rows, pk |-> inst.pk]
    ELSE IF inst.pk = 0
         THEN [ok   |-> TRUE,
               rows |-> Append(rows, [inst EXCEPT !.pk = Len(rows) + 1,
                                                  !.sync_timestamp = now]),
               pk   |-> Len(rows) + 1]
         ELSE [ok   |-> TRUE,
               rows |-> [rows EXCEPT ![inst.pk] = inst],
               pk   |-> inst.pk]

----------------------------------------------------------------------------
\* What the latest step did

NoFetched == [Subject |-> "", Status |-> "", Queue |-> ""]

\* only push and pretalx_rt_push describe themselves; every other step
\* leaves NoLast
NoLast ==
    [op    |-> "",     \* the operation: "push" or "pretalx_rt_push"
     pk    |-> 0,      \* the ticket it was called on
     calls |-> <<>>,   \* the remote calls it issued
     enq   |-> 0]      \* the number of tasks it enqueued

Did(op, pk, r) == [op |-> op, pk |-> pk, calls |-> r.calls, enq |-> r.enq]

----------------------------------------------------------------------------
\* RTSync.push / pretalx_rt_push

\* the fields push edits, from the current submission
push_fields(e, ticket) ==
    [Subject      |-> Submissions[ticket.submission].title,
     Requestor    |-> requestors(Submissions[ticket.submission].speakers),
     CustomFields |-> CustomFieldsOf(e, Submissions[ticket.submission].code,
                                     Submissions[ticket.submission].state)]

\* push with the early return misplaced: the pull task is scheduled for a
\* ticket without a submission too
push_schedules_always(e, ticket, ok) ==
    IF ticket.submission = NoSubmission
    THEN [rt |-> rt,
          tasks  |-> Append(tasks, [event_id |-> e, ticket_id |-> ticket.pk]),
          calls  |-> <<>>, enq |-> 1, raised |-> FALSE]
    ELSE [rt     |-> IF ok
                     THEN [rt EXCEPT ![ticket.rt_id] =
                                         EditRemote(@, push_fields(e, ticket))]
                     ELSE rt,
          tasks  |-> IF ok
                     THEN Append(tasks, [event_id |-> e, ticket_id |-> ticket.pk])
                     ELSE tasks,
          calls  |-> <<Call("edit_ticket", ticket.rt_id, ok, push_fields(e, ticket))>>,
          enq    |-> IF ok THEN 1 ELSE 0,
          raised |-> ~ok]

\* push scheduling the pull task whether or not the edit succeeded
push_schedules_after_failure(e, ticket, ok) ==
    IF ticket.submission = NoSubmission
    THEN [rt |-> rt, tasks |-> tasks, calls |-> <<>>, enq |-> 0, raised |-> FALSE]
    ELSE [rt     |-> IF ok
                     THEN [rt EXCEPT ![ticket.rt_id] =
                                         EditRemote(@, push_fields(e, ticket))]
                     ELSE rt,
          tasks  |-> Append(tasks, [event_id |-> e, ticket_id |-> ticket.pk]),
          calls  |-> <<Call("edit_ticket", ticket.rt_id, ok, push_fields(e, ticket))>>,
          enq    |-> 1,
          raised |-> ~ok]

\* RTSync.push(ticket) with the outcome ok of its edit_ticket call: the RT
\* server and the task queue after it, and the calls it issued
push(e, ticket, ok) ==
    IF ticket.submission = NoSubmission
    THEN [rt |-> rt, tasks |-> tasks, calls |-> <<>>, enq |-> 0, raised |-> FALSE]
    ELSE IF ok
         THEN [rt     |-> [rt EXCEPT ![ticket.rt_id] =
                                         EditRemote(@, push_fields(e, ticket))],
               tasks  |-> Append(tasks, [event_id |-> e, ticket_id |-> ticket.pk]),
               calls  |-> <<Call("edit_ticket", ticket.rt_id, TRUE,
                                 push_fields(e, ticket))>>,
               enq    |-> 1,
               raised |-> FALSE]
         ELSE [rt     |-> rt,
               tasks  |-> tasks,
               calls  |-> <<Call("edit_ticket", ticket.rt_id, FALSE,
                                 push_fields(e, ticket))>>,
               enq    |-> 0,
               raised |-> TRUE]

\* pretalx_rt_push(event, ticket) of signals.py: the same edit, no pull task
pretalx_rt_push(e, ticket, ok) ==
    IF ticket.submission = NoSubmission
    THEN [rt |-> rt, tasks |-> tasks, calls |-> <<>>, enq |-> 0, raised |-> FALSE]
    ELSE [rt     |-> IF ok
                     THEN [rt EXCEPT ![ticket.rt_id] =
                                         EditRemote(@, push_fields(e, ticket))]
                     ELSE rt,
          tasks  |-> tasks,
          calls  |-> <<Call("edit_ticket", ticket.rt_id, ok, push_fields(e, ticket))>>,
          enq    |-> 0,
          raised |-> ~ok]

\* a remote call on ticket rid can succeed only if the RT server has the
\* ticket; whether it does succeed is the environment's choice
MayCall(rid, ok) == ok => rid \in RtIds

----------------------------------------------------------------------------
\* RTSync.pull / pretalx_rt_pull

\* pull_fields without the stamp
pull_fields_no_stamp(inst, rt_ticket, now) ==
    [inst EXCEPT !.subject = rt_ticket.Subject,
                 !.status  = rt_ticket.Status,
                 !.queue   = rt_ticket.Queue]

\* the assignments of pull to the instance, from the fetched remote ticket
pull_fields(inst, rt_ticket, now) ==
    [inst EXCEPT !.subject        = rt_ticket.Subject,
                 !.status         = rt_ticket.Status,
                 !.queue          = rt_ticket.Queue,
                 !.sync_timestamp = now]

\* what pull keeps of the fetched ticket
Fetched(rt_ticket) ==
    [Subject |-> rt_ticket.Subject,
     Status  |-> rt_ticket.Status,
     Queue   |-> rt_ticket.Queue]

----------------------------------------------------------------------------
\* The environment: time passes, RT users edit tickets

Snapshot(t) == [Requestor |-> t.Requestor, Subject |-> t.Subject, Status |-> t.Status]

NoSnap == [Requestor |-> <<>>, Subject |-> "", Status |-> ""]

NoTicket == NewTicket("", 0, NoSubmission)

AmIdle ==
    [pc         |-> "idle",
     kind       |-> "",        \* "mail" or "comment"
     variant    |-> "",        \* "RTSync" (rt_sync.py) or "signals" (signals.py)
     ticket     |-> NoTicket,  \* the Ticket instance the caller passed
     mail       |-> "",
     old        |-> NoSnap,    \* old_ticket: the remote fields when the call began
     err        |-> "",        \* the exception raised inside the try block
     raised     |-> "",        \* the exception the caller observes
     calls      |-> <<>>,      \* the remote calls issued
     interfered |-> FALSE]     \* whether another actor wrote the remote ticket

\* am after another actor wrote remote ticket rid
Touch(rid) ==
    IF am.pc # "idle" /\ am.ticket.rt_id = rid
    THEN [am EXCEPT !.interfered = TRUE]
    ELSE am

Tick ==
    /\ clock < MaxClock
    /\ clock' = clock + 1
    /\ last' = NoLast
    /\ call' = call
    /\ sm' = sm
    /\ hd2' = hd2
    /\ UNCHANGED <<rt, tickets, mailSent, mailLinks, tasks, nullsFirst,
                   am, sq, pp, hd, pl>>

\* an RT user changes the status of a ticket
ExternalEdit ==
    \E rid \in RtIds :
      \E f \in [Status : RtStatuses] :
        /\ rt[rid] # EditRemote(rt[rid], f)
        /\ rt' = [rt EXCEPT ![rid] = EditRemote(@, f)]
        /\ am' = Touch(rid)
        /\ last' = NoLast
        /\ call' = call
        /\ sm' = sm
        /\ hd2' = hd2
        /\ UNCHANGED <<tickets, mailSent, mailLinks, tasks, clock,
                       nullsFirst, sq, pp, hd, pl>>

----------------------------------------------------------------------------
\* RTSync.add_mail_to_ticket / create_rt_mail / RTSync.add_comment_to_ticket

\* the exception that leaves a try/finally block: the one raised in the
\* finally clause if there is one, else the one raised in the try block
finally_raises(try_error, finally_error) ==
    IF finally_error # "" THEN finally_error ELSE try_error

\* the fields of the override edit
override_fields(m) ==
    [Requestor |-> requestors(Mails[m].to_users), Subject |-> Mails[m].subject]

\* the fields of the edit in the finally clause
restore_fields(old_ticket) ==
    [Requestor |-> old_ticket.Requestor,
     Subject   |-> old_ticket.Subject,
     Status    |-> old_ticket.Status]

\* the call after old_ticket = self.rt.get_ticket(ticket.rt_id), which is
\* outside the try block; kv = <<kind, variant>>
\* the snapshot read moved inside the try block: its exception reaches the
\* finally clause
am_begin_in_try(ticket, m, kv, ok) ==
    LET rid == ticket.rt_id
        a0  == [AmIdle EXCEPT !.kind = kv[1], !.variant = kv[2],
                              !.ticket = ticket,
                              !.mail = IF kv[1] = "mail" THEN m ELSE "",
                              !.calls = <<Call("get_ticket", rid, ok, NoFields)>>]
    IN  IF ok
        THEN [a0 EXCEPT !.pc  = IF kv[1] = "mail" THEN "override" ELSE "comment",
                        !.old = Snapshot(rt[rid])]
        ELSE [a0 EXCEPT !.pc = "finally", !.err = "get_ticket"]

am_begin(ticket, m, kv, ok) ==
    LET rid == ticket.rt_id
        a0  == [AmIdle EXCEPT !.kind = kv[1], !.variant = kv[2],
                              !.ticket = ticket,
                              !.mail = IF kv[1] = "mail" THEN m ELSE "",
                              !.calls = <<Call("get_ticket", rid, ok, NoFields)>>]
    IN  IF ok
        THEN [a0 EXCEPT !.pc  = IF kv[1] = "mail" THEN "override" ELSE "comment",
                        !.old = Snapshot(rt[rid])]
        ELSE [a0 EXCEPT !.pc = "done", !.raised = "get_ticket"]

\* add_mail_to_ticket, create_rt_mail or add_comment_to_ticket is called on a
\* persisted ticket
AmStart ==
    /\ am.pc = "idle"
    /\ \E pk \in Pks, m \in MailIds, ok \in BOOLEAN,
          kv \in {<<"mail", "RTSync">>, <<"mail", "signals">>, <<"comment", "RTSync">>} :
        /\ MayCall(tickets[pk].rt_id, ok)
        /\ am' = am_begin(tickets[pk], m, kv, ok)
    /\ last' = NoLast
    /\ call' = call
    /\ sm' = sm
    /\ hd2' = hd2
    /\ UNCHANGED <<rt, tickets, mailSent, mailLinks, tasks, clock,
                   nullsFirst, sq, pp, hd, pl>>

\* self.rt.edit_ticket(ticket.rt_id, Requestor=..., Subject=mail.subject)
AmOverride ==
    /\ am.pc = "override"
    /\ \E ok \in BOOLEAN :
        LET rid == am.ticket.rt_id
            f   == override_fields(am.mail)
        IN  /\ rt' = IF ok THEN [rt EXCEPT ![rid] = EditRemote(@, f)] ELSE rt
            /\ am' = [am EXCEPT !.pc    = IF ok THEN "reply" ELSE "finally",
                                !.err   = IF ok THEN "" ELSE "edit_ticket",
                                !.calls = Append(@, Call("edit_ticket", rid, ok, f))]
    /\ last' = NoLast
    /\ call' = call
    /\ sm' = sm
    /\ hd2' = hd2
    /\ UNCHANGED <<tickets, mailSent, mailLinks, tasks, clock,
                   nullsFirst, sq, pp, hd, pl>>

\* what the RT server does with a reply or a comment: a scrip of the queue
\* may reopen the ticket
Transact(rid, reopen) ==
    IF reopen THEN [rt EXCEPT ![rid].Status = "open"] ELSE rt

\* what the RT server records of a reply or a comment: its content type and
\* the Requestor and Subject the ticket has when it arrives
Transaction(rid, content_type) ==
    [content_type |-> content_type,
     Requestor    |-> rt[rid].Requestor,
     Subject      |-> rt[rid].Subject]

\* AmReply without the try/finally: a failed reply leaves the function at once
AmReplyNoFinally ==
    /\ am.pc = "reply"
    /\ \E ok \in BOOLEAN, reopen \in BOOLEAN :
        LET rid  == am.ticket.rt_id
            html == rt_settings[am.ticket.event].is_mail_html
            ct   == IF html THEN "text/html" ELSE "text/plain"
        IN  /\ ~ok => ~reopen
            /\ rt' = IF ok THEN Transact(rid, reopen) ELSE rt
            /\ am' = [am EXCEPT !.pc     = IF ok THEN "save_mail" ELSE "done",
                                !.err    = IF ok THEN "" ELSE "reply",
                                !.raised = IF ok THEN "" ELSE "reply",
                                !.calls  = Append(@, Call("reply", rid, ok,
                                                          Transaction(rid, ct)))]
    /\ last' = NoLast
    /\ call' = call
    /\ sm' = sm
    /\ hd2' = hd2
    /\ UNCHANGED <<tickets, mailSent, mailLinks, tasks, clock, nullsFirst,
                   sq, pp, hd, pl>>

\* a reply whose exception is swallowed: the statements after it run
AmReplyIgnoringFailure ==
    /\ am.pc = "reply"
    /\ \E ok \in BOOLEAN, reopen \in BOOLEAN :
        LET rid  == am.ticket.rt_id
            html == rt_settings[am.ticket.event].is_mail_html
            ct   == IF html THEN "text/html" ELSE "text/plain"
        IN  /\ ~ok => ~reopen
            /\ rt' = IF ok THEN Transact(rid, reopen) ELSE rt
            /\ am' = [am EXCEPT !.pc    = "save_mail",
                                !.err   = "",
                                !.calls = Append(@, Call("reply", rid, ok,
                                                         Transaction(rid, ct)))]
    /\ last' = NoLast
    /\ call' = call
    /\ sm' = sm
    /\ hd2' = hd2
    /\ UNCHANGED <<tickets, mailSent, mailLinks, tasks, clock, nullsFirst,
                   sq, pp, hd, pl>>

\* self.rt.reply(ticket.rt_id, content=..., content_type=..., attachments=...)
AmReply ==
    /\ am.pc = "reply"
    /\ \E ok \in BOOLEAN, reopen \in BOOLEAN :
        LET rid  == am.ticket.rt_id
            html == rt_settings[am.ticket.event].is_mail_html
            ct   == IF html THEN "text/html" ELSE "text/plain"
        IN  /\ ~ok => ~reopen
            /\ rt' = IF ok THEN Transact(rid, reopen) ELSE rt
            /\ am' = [am EXCEPT !.pc    = IF ok THEN "save_mail" ELSE "finally",
                                !.err   = IF ok THEN "" ELSE "reply",
                                !.calls = Append(@, Call("reply", rid, ok,
                                                         Transaction(rid, ct)))]
    /\ last' = NoLast
    /\ call' = call
    /\ sm' = sm
    /\ hd2' = hd2
    /\ UNCHANGED <<tickets, mailSent, mailLinks, tasks, clock, nullsFirst,
                   sq, pp, hd, pl>>

\* the comment without the finally clause: its exception leaves the method
AmCommentNoFinally ==
    /\ am.pc = "comment"
    /\ \E ok \in BOOLEAN, reopen \in BOOLEAN :
        LET rid == am.ticket.rt_id
        IN  /\ ~ok => ~reopen
            /\ rt' = IF ok THEN Transact(rid, reopen) ELSE rt
            /\ am' = [am EXCEPT !.pc     = IF ok THEN "finally" ELSE "done",
                                !.err    = IF ok THEN "" ELSE "comment",
                                !.raised = IF ok THEN "" ELSE "comment",
                                !.calls  = Append(@, Call("comment", rid, ok,
                                                          Transaction(rid, "text/html")))]
    /\ last' = NoLast
    /\ call' = call
    /\ sm' = sm
    /\ hd2' = hd2
    /\ UNCHANGED <<tickets, mailSent, mailLinks, tasks, clock, nullsFirst,
                   sq, pp, hd, pl>>

\* self.rt.comment(ticket.rt_id, content=rich_text(comment.text), content_type="text/html")
AmComment ==
    /\ am.pc = "comment"
    /\ \E ok \in BOOLEAN, reopen \in BOOLEAN :
        LET rid == am.ticket.rt_id
        IN  /\ ~ok => ~reopen
            /\ rt' = IF ok THEN Transact(rid, reopen) ELSE rt
            /\ am' = [am EXCEPT !.pc    = "finally",
                                !.err   = IF ok THEN "" ELSE "comment",
                                !.calls = Append(@, Call("comment", rid, ok,
                                                         Transaction(rid, "text/html")))]
    /\ last' = NoLast
    /\ call' = call
    /\ sm' = sm
    /\ hd2' = hd2
    /\ UNCHANGED <<tickets, mailSent, mailLinks, tasks, clock, nullsFirst,
                   sq, pp, hd, pl>>

\* mail.sent = now(); mail.save()   (ok = FALSE: the database raises)
AmSaveMail ==
    /\ am.pc = "save_mail"
    /\ \E ok \in BOOLEAN :
        /\ mailSent' = IF ok THEN [mailSent EXCEPT ![am.mail] = clock] ELSE mailSent
        /\ am' = [am EXCEPT !.pc  = IF ok THEN "link" ELSE "finally",
                            !.err = IF ok THEN "" ELSE "mail.save"]
    /\ last' = NoLast
    /\ call' = call
    /\ sm' = sm
    /\ hd2' = hd2
    /\ UNCHANGED <<rt, tickets, mailLinks, tasks, clock, nullsFirst,
                   sq, pp, hd, pl>>

\* ticket.mails.add(mail.id); ticket.save()
\* (the instance the caller passed is written back, column by column)
AmLink ==
    /\ am.pc = "link"
    /\ \E ok \in BOOLEAN :
        LET w == save(tickets, am.ticket, clock)
        IN  /\ mailLinks' = IF ok THEN mailLinks \cup {<<am.ticket.pk, am.mail>>}
                                  ELSE mailLinks
            /\ tickets' = IF ok THEN w.rows ELSE tickets
            /\ am' = [am EXCEPT !.pc  = "finally",
                                !.err = IF ~ok THEN "mails.add"
                                        ELSE IF ~w.ok THEN "ticket.save" ELSE ""]
    /\ last' = NoLast
    /\ call' = call
    /\ sm' = sm
    /\ hd2' = hd2
    /\ UNCHANGED <<rt, mailSent, tasks, clock, nullsFirst, sq, pp, hd, pl>>

\* finally: self.rt.edit_ticket(ticket.rt_id, Requestor=old_ticket["Requestor"],
\*              Subject=old_ticket["Subject"], Status=old_ticket["Status"])
AmRestore ==
    /\ am.pc = "finally"
    /\ \E ok \in BOOLEAN :
        LET rid == am.ticket.rt_id
            f   == restore_fields(am.old)
        IN  /\ rt' = IF ok THEN [rt EXCEPT ![rid] = EditRemote(@, f)] ELSE rt
            /\ am' = [am EXCEPT !.pc     = "done",
                                !.raised = finally_raises(am.err,
                                               IF ok THEN "" ELSE "restore"),
                                !.calls  = Append(@, Call("edit_ticket", rid, ok, f))]
    /\ last' = NoLast
    /\ call' = call
    /\ sm' = sm
    /\ hd2' = hd2
    /\ UNCHANGED <<tickets, mailSent, mailLinks, tasks, clock,
                   nullsFirst, sq, pp, hd, pl>>

\* the call has returned or raised; the caller goes on
AmReturn ==
    /\ am.pc = "done"
    /\ am' = AmIdle
    /\ last' = NoLast
    /\ call' = call
    /\ sm' = sm
    /\ hd2' = hd2
    /\ UNCHANGED <<rt, tickets, mailSent, mailLinks, tasks, clock,
                   nullsFirst, sq, pp, hd, pl>>

----------------------------------------------------------------------------
\* push and pull as operations of their own

\* ticket_push_task(event_id, ticket_id):
\*   RTSync(Event.objects.get(id=event_id)).push(Ticket.objects.get(id=ticket_id))
TaskPush ==
    \E pk \in Pks, ok \in BOOLEAN :
      LET t == tickets[pk]
          r == push(t.event, t, ok)
      IN  /\ MayCall(t.rt_id, ok)
          /\ Len(r.tasks) <= MaxTasks
          /\ rt' = r.rt
          /\ tasks' = r.tasks
          /\ am' = IF r.rt # rt THEN Touch(t.rt_id) ELSE am
          /\ last' = Did("push", pk, r)
          /\ call' = call
          /\ sm' = sm
          /\ hd2' = hd2
          /\ UNCHANGED <<tickets, mailSent, mailLinks, clock, nullsFirst,
                         sq, pp, hd, pl>>

\* pretalx_rt_push(event, ticket), called on a persisted ticket
PretalxRtPush ==
    \E pk \in Pks, ok \in BOOLEAN :
      LET t == tickets[pk]
          r == pretalx_rt_push(t.event, t, ok)
      IN  /\ MayCall(t.rt_id, ok)
          /\ rt' = r.rt
          /\ tasks' = r.tasks
          /\ am' = IF r.rt # rt THEN Touch(t.rt_id) ELSE am
          /\ last' = Did("pretalx_rt_push", pk, r)
          /\ call' = call
          /\ sm' = sm
          /\ hd2' = hd2
          /\ UNCHANGED <<tickets, mailSent, mailLinks, clock, nullsFirst,
                         sq, pp, hd, pl>>

PlIdle == [pc |-> "idle", ticket |-> NoTicket, began |-> 0, fetched |-> NoFetched]

\* ticket_pull_task(event_id, ticket_id), first half:
\*   ticket = Ticket.objects.get(id=ticket_id)
\*   rt_ticket = self.rt.get_ticket(ticket.rt_id)
PlFetch ==
    /\ pl.pc = "idle"
    /\ tasks # <<>>
    /\ \E ok \in BOOLEAN :
        LET t == tickets[Head(tasks).ticket_id]
        IN  /\ MayCall(t.rt_id, ok)
            /\ pl' = IF ok
                     THEN [pc |-> "save", ticket |-> t, began |-> clock,
                           fetched |-> Fetched(rt[t.rt_id])]
                     ELSE PlIdle
            /\ last' = NoLast
            /\ call' = call
            /\ sm' = sm
            /\ hd2' = hd2
    /\ tasks' = Tail(tasks)
    /\ UNCHANGED <<rt, tickets, mailSent, mailLinks, clock, nullsFirst,
                   am, sq, pp, hd>>

\* ticket_pull_task, second half: the assignments and ticket.save()
PlSave ==
    /\ pl.pc = "save"
    /\ LET w == save(tickets, pull_fields(pl.ticket, pl.fetched, clock), clock)
       IN  /\ tickets' = w.rows
           /\ last' = NoLast
           /\ call' = call
           /\ sm' = sm
           /\ hd2' = hd2
    /\ pl' = PlIdle
    /\ UNCHANGED <<rt, mailSent, mailLinks, tasks, clock, nullsFirst,
                   am, sq, pp, hd>>

----------------------------------------------------------------------------
\* pretalx_rt_periodic_pull (signals.py).  The decorator
\* minimum_interval(minutes_after_success=5) spaces the passes; the model lets
\* a pass begin at any time.  pretalx_rt_pull also adds the users whose email
\* is among the requestors to ticket.users, a relation models.py does not
\* have; the model leaves it out.

\* is_rt_enabled(event)
\* the check answering yes for every event
is_rt_enabled_always(e) == e \in Events

is_rt_enabled(e) == "pretalx_rt" \in plugin_list[e]

\* needs_sync with >= for >
needs_sync_inclusive(ticket, e, now) ==
    IF ticket.sync_timestamp = Null
    THEN TRUE
    ELSE now - ticket.sync_timestamp >= rt_settings[e].sync_interval

\* needs_sync without the test for None (None taken for the current time)
needs_sync_no_none(ticket, e, now) ==
    IF ticket.sync_timestamp = Null
    THEN FALSE
    ELSE now - ticket.sync_timestamp > rt_settings[e].sync_interval

\* needs_sync(ticket, event), now() being `now`
needs_sync(ticket, e, now) ==
    IF ticket.sync_timestamp = Null
    THEN TRUE
    ELSE now - ticket.sync_timestamp > rt_settings[e].sync_interval

\* the operands of the subtraction swapped
time_limit_swapped(start, now) == start - now > BudgetMinutes

\* now() - start > timedelta(minutes=1)
\* a budget that is spent as soon as the pass begins
time_limit_reached_at_once(start, now) == now - start >= 0

time_limit_reached(start, now) == now - start > BudgetMinutes

\* the place of a sync_timestamp in ascending order: NULL sorts before every
\* time or after every time, as the database has it
SortKey(ts) ==
    IF ts = Null THEN (IF nullsFirst THEN Null ELSE clock + 1) ELSE ts

\* the sequences that list every element of S once
Perms(S) ==
    {f \in [1..Cardinality(S) -> S] : \A i, j \in DOMAIN f : i # j => f[i] # f[j]}

\* Ticket.objects.exclude(submission__isnull=True).order_by("sync_timestamp"):
\* the results the database may return (rows of equal key in any order)
order_by_sync_timestamp ==
    {o \in Perms({tickets[k] : k \in {k \in Pks : tickets[k].submission # NoSubmission}}) :
        \A i, j \in DOMAIN o :
            i < j => SortKey(o[i].sync_timestamp) <= SortKey(o[j].sync_timestamp)}

PpIdle ==
    [pc      |-> "idle",
     start   |-> 0,          \* start = now()
     order   |-> <<>>,       \* the rows the query returned
     i       |-> 0,          \* the position of the loop
     fetched |-> NoFetched,  \* rt_ticket of the pull in flight
     pulled  |-> <<>>,       \* the pks pulled so far
     err     |-> ""]         \* the exception that ended the pass

\* start = now(); the query of the for statement is evaluated
PpStart ==
    /\ pp.pc = "idle"
    /\ \E o \in order_by_sync_timestamp :
        pp' = [PpIdle EXCEPT !.pc = "loop", !.start = clock, !.order = o, !.i = 1]
    /\ last' = NoLast
    /\ call' = call
    /\ sm' = sm
    /\ hd2' = hd2
    /\ UNCHANGED <<rt, tickets, mailSent, mailLinks, tasks, clock, nullsFirst,
                   am, sq, hd, pl>>

\* one iteration of the loop, up to the call of pretalx_rt_pull; after the
\* last ticket the function returns
PpExamine ==
    /\ pp.pc = "loop"
    /\ pp' = IF pp.i > Len(pp.order) \/ time_limit_reached(pp.start, clock)
             THEN [pp EXCEPT !.pc = "done"]
             ELSE LET ticket == pp.order[pp.i]
                      event  == Submissions[ticket.submission].event
                  IN  IF ~is_rt_enabled(event)
                      THEN [pp EXCEPT !.i = @ + 1]
                      ELSE IF needs_sync(ticket, event, clock)
                           THEN [pp EXCEPT !.pc = "pull"]
                           ELSE [pp EXCEPT !.i = @ + 1]
    /\ last' = NoLast
    /\ call' = call
    /\ sm' = sm
    /\ hd2' = hd2
    /\ UNCHANGED <<rt, tickets, mailSent, mailLinks, tasks, clock, nullsFirst,
                   am, sq, hd, pl>>

\* pretalx_rt_pull: rt_ticket = rt.get_ticket(ticket.id); an exception leaves
\* pretalx_rt_periodic_pull
PpPullFetch ==
    /\ pp.pc = "pull"
    /\ \E ok \in BOOLEAN :
        LET ticket == pp.order[pp.i]
        IN  /\ MayCall(ticket.rt_id, ok)
            /\ pp' = IF ok
                     THEN [pp EXCEPT !.pc = "save",
                                     !.fetched = Fetched(rt[ticket.rt_id])]
                     ELSE [pp EXCEPT !.pc = "done", !.err = "get_ticket"]
    /\ last' = NoLast
    /\ call' = call
    /\ sm' = sm
    /\ hd2' = hd2
    /\ UNCHANGED <<rt, tickets, mailSent, mailLinks, tasks, clock, nullsFirst,
                   am, sq, hd, pl>>

\* pretalx_rt_pull: the assignments, ticket.sync_timestamp = now(), ticket.save()
PpPullSave ==
    /\ pp.pc = "save"
    /\ LET ticket == pp.order[pp.i]
           w      == save(tickets, pull_fields(ticket, pp.fetched, clock), clock)
       IN  /\ tickets' = w.rows
           /\ pp' = IF w.ok
                    THEN [pp EXCEPT !.pc = "loop", !.i = @ + 1,
                                    !.fetched = NoFetched,
                                    !.pulled = Append(@, ticket.pk)]
                    ELSE [pp EXCEPT !.pc = "done", !.err = "ticket.save"]
    /\ last' = NoLast
    /\ call' = call
    /\ sm' = sm
    /\ hd2' = hd2
    /\ UNCHANGED <<rt, mailSent, mailLinks, tasks, clock, nullsFirst,
                   am, sq, hd, pl>>

\* the pass has returned or raised
PpReturn ==
    /\ pp.pc = "done"
    /\ pp' = PpIdle
    /\ last' = NoLast
    /\ call' = call
    /\ sm' = sm
    /\ hd2' = hd2
    /\ UNCHANGED <<rt, tickets, mailSent, mailLinks, tasks, clock, nullsFirst,
                   am, sq, hd, pl>>

----------------------------------------------------------------------------
\* RTSync.sync_queue

\* submissions_by_code: the codes of the submissions of event e
submissions_by_code(e) == {s \in SubmissionIds : Submissions[s].event = e}

\* existing_tickets_by_rt = {t.rt_id: t for t in Ticket.objects.filter(event=...)}
\* (of the rows of one rt_id the dictionary keeps the one iterated last, the
\* query being iterated in primary-key order)
existing_tickets_by_rt(e) ==
    LET ks   == {k \in Pks : tickets[k].event = e}
        rids == {tickets[k].rt_id : k \in ks}
        lastOf(rid) == CHOOSE k \in ks :
                          /\ tickets[k].rt_id = rid
                          /\ \A j \in ks : tickets[j].rt_id = rid => j <= k
    IN  [rid \in rids |-> tickets[lastOf(rid)]]

\* existing_tickets_by_submission =
\*   {t.submission_id: t for t in existing_tickets_by_rt.values() if t.submission_id}
\* kept as submission |-> rt_id of the ticket, all the loop reads of it
existing_tickets_by_submission(by_rt) ==
    LET ts   == {by_rt[r] : r \in DOMAIN by_rt}
        subs == {t.submission : t \in ts} \ {NoSubmission}
    IN  [s \in subs |-> (CHOOSE t \in ts : t.submission = s).rt_id]

RECURSIVE search_from(_, _)
\* the tickets of the queue from remote id rid on
search_from(queue_name, rid) ==
    IF rid > Len(rt) THEN <<>>
    ELSE (IF rt[rid].Queue = queue_name
          THEN <<[id |-> rid, CustomFields |-> rt[rid].CustomFields]>>
          ELSE <<>>) \o search_from(queue_name, rid + 1)

\* list(self.rt.search(queue_name))
search(queue_name) == search_from(queue_name, 1)

\* Ticket.objects.update_or_create(rt_id=rid, defaults={event, submission}):
\* the row of that rt_id (of whatever event) is updated, or a row is created;
\* the unique constraint on submission raises IntegrityError
update_or_create(rows, rid, e, s, now) ==
    LET found == {k \in 1..Len(rows) : rows[k].rt_id = rid}
    IN  IF Cardinality(found) > 1
        THEN [err |-> "MultipleObjectsReturned", rows |-> rows, pk |-> 0,
              created |-> FALSE]
        ELSE IF found = {}
             THEN LET w == save(rows, NewTicket(e, rid, s), now)
                  IN  [err     |-> IF w.ok THEN "" ELSE "IntegrityError",
                       rows    |-> w.rows,
                       pk      |-> w.pk,
                       created |-> w.ok]
             ELSE LET k == CHOOSE k \in found : TRUE
                      w == save(rows, [rows[k] EXCEPT !.event = e,
                                                      !.submission = s], now)
                  IN  [err     |-> IF w.ok THEN "" ELSE "IntegrityError",
                       rows    |-> w.rows,
                       pk      |-> k,
                       created |-> FALSE]

SqIdle ==
    [pc              |-> "idle",
     event           |-> "",
     by_submission   |-> <<>>,   \* existing_tickets_by_submission
     queue           |-> <<>>,   \* tickets = list(self.rt.search(queue_name))
     i               |-> 0,      \* the position of the loop
     ticket          |-> 0,      \* pk of the row update_or_create returned
     new_tickets     |-> 0,
     updated_tickets |-> 0,
     skipped         |-> <<>>,   \* the remote ids of the "Skipping RT #" lines
     pushed          |-> <<>>,   \* the remote ids push edited
     err             |-> ""]     \* the exception that ended the pass

\* the submission code the loop reads off the remote ticket it is at
pretalx_id == get_custom_field(sq.queue[sq.i], rt_settings[sq.event].custom_field_id)

\* sync_queue, up to the loop: the dictionaries and the search
SqStart ==
    /\ sq.pc = "idle"
    /\ \E e \in Events, ok \in BOOLEAN :
        sq' = IF ok
              THEN [SqIdle EXCEPT
                      !.pc = "loop", !.event = e, !.i = 1,
                      !.by_submission =
                          existing_tickets_by_submission(existing_tickets_by_rt(e)),
                      !.queue = search(rt_settings[e].queue)]
              ELSE [SqIdle EXCEPT !.pc = "done", !.event = e, !.err = "search"]
    /\ last' = NoLast
    /\ call' = call
    /\ sm' = sm
    /\ hd2' = hd2
    /\ UNCHANGED <<rt, tickets, mailSent, mailLinks, tasks, clock, nullsFirst,
                   am, pp, hd, pl>>

\* one iteration of the loop, up to self.push(ticket); after the last remote
\* ticket the function returns
SqItem ==
    /\ sq.pc = "loop"
    /\ IF sq.i > Len(sq.queue)
       THEN /\ sq' = [sq EXCEPT !.pc = "done"]
            /\ tickets' = tickets
       ELSE LET rid == sq.queue[sq.i].id
                skip == [sq EXCEPT !.i = @ + 1, !.skipped = Append(@, rid)]
            IN  IF pretalx_id = ""
                THEN sq' = skip /\ tickets' = tickets
                ELSE IF pretalx_id \notin submissions_by_code(sq.event)
                THEN sq' = skip /\ tickets' = tickets
                ELSE IF pretalx_id \in DOMAIN sq.by_submission
                THEN sq' = skip /\ tickets' = tickets
                ELSE LET u == update_or_create(tickets, rid, sq.event,
                                               pretalx_id, clock)
                     IN  /\ tickets' = u.rows
                         /\ sq' = IF u.err # ""
                                  THEN [sq EXCEPT !.pc = "done", !.err = u.err]
                                  ELSE [sq EXCEPT
                                          !.pc = "push", !.ticket = u.pk,
                                          !.new_tickets =
                                              IF u.created THEN @ + 1 ELSE @,
                                          !.updated_tickets =
                                              IF u.created THEN @ ELSE @ + 1]
    /\ last' = NoLast
    /\ call' = call
    /\ sm' = sm
    /\ hd2' = hd2
    /\ UNCHANGED <<rt, mailSent, mailLinks, tasks, clock, nullsFirst,
                   am, pp, hd, pl>>

\* self.push(ticket), the end of an iteration
SqPush ==
    /\ sq.pc = "push"
    /\ \E ok \in BOOLEAN :
        LET t == tickets[sq.ticket]
            r == push(sq.event, t, ok)
        IN  /\ MayCall(t.rt_id, ok)
            /\ Len(r.tasks) <= MaxTasks
            /\ rt' = r.rt
            /\ tasks' = r.tasks
            /\ am' = IF r.rt # rt THEN Touch(t.rt_id) ELSE am
            /\ sq' = IF r.raised
                     THEN [sq EXCEPT !.pc = "done", !.err = "edit_ticket"]
                     ELSE [sq EXCEPT !.pc = "loop", !.i = @ + 1,
                                     !.pushed = Append(@, t.rt_id)]
    /\ last' = NoLast
    /\ call' = call
    /\ sm' = sm
    /\ hd2' = hd2
    /\ UNCHANGED <<tickets, mailSent, mailLinks, clock, nullsFirst, pp, hd, pl>>

\* the pass has returned or raised
SqReturn ==
    /\ sq.pc = "done"
    /\ sq' = SqIdle
    /\ last' = NoLast
    /\ call' = call
    /\ sm' = sm
    /\ hd2' = hd2
    /\ UNCHANGED <<rt, tickets, mailSent, mailLinks, tasks, clock, nullsFirst,
                   am, pp, hd, pl>>

----------------------------------------------------------------------------
\* The operations that create tickets and the dispatch handlers (signals.py)

HdIdle ==
    [pc         |-> "idle",
     op         |-> "",
     event      |-> "",
     submission |-> NoSubmission,
     mail       |-> "",
     ticket     |-> NoTicket,    \* the Ticket instance in hand
     fetched    |-> NoFetched,   \* rt_ticket of the pull in flight
     calls      |-> <<>>,        \* the remote calls issued
     err        |-> ""]          \* the exception that ended the operation

\* getattr(submission, "rt_ticket", None): the row that links s, None = NoTicket
rt_ticket(s) ==
    IF \E k \in Pks : tickets[k].submission = s
    THEN tickets[CHOOSE k \in Pks : tickets[k].submission = s]
    ELSE NoTicket

\* RTSync.create_submission_ticket and create_mail_ticket, called directly, and
\* add_mail_to_ticket, called with a mail and the ticket of its submission
CreateCall(h) ==
    \/ \E m \in MailIds, s \in SubmissionIds :
         /\ s \in Mails[m].submissions
         /\ rt_ticket(s) # NoTicket
         /\ h = [HdIdle EXCEPT !.pc = "mail", !.op = "add_mail_to_ticket",
                               !.event = rt_ticket(s).event, !.mail = m,
                               !.ticket = rt_ticket(s)]
    \/ \E s \in SubmissionIds :
         h = [HdIdle EXCEPT !.pc = "create", !.op = "create_submission_ticket",
                            !.event = Submissions[s].event, !.submission = s]
    \/ \E m \in MailIds :
         h = [HdIdle EXCEPT !.pc = "create", !.op = "create_mail_ticket",
                            !.event = Mails[m].event, !.mail = m]

\* pretalx_rt_submission_state_change(sender, submission, ...)
\* the handler without the lookup of submission.rt_ticket
submission_state_change_no_reuse(s) ==
    LET sender == Submissions[s].event
        h0     == [HdIdle EXCEPT !.op = "submission_state_change",
                                 !.event = sender, !.submission = s]
    IN  IF ~is_rt_enabled(sender)
        THEN [h0 EXCEPT !.pc = "done"]
        ELSE [h0 EXCEPT !.pc = "create"]

submission_state_change(s) ==
    LET sender == Submissions[s].event
        h0     == [HdIdle EXCEPT !.op = "submission_state_change",
                                 !.event = sender, !.submission = s]
    IN  IF ~is_rt_enabled(sender)
        THEN [h0 EXCEPT !.pc = "done"]
        ELSE IF rt_ticket(s) = NoTicket
             THEN [h0 EXCEPT !.pc = "create"]
             ELSE [h0 EXCEPT !.pc = "push", !.ticket = rt_ticket(s)]

\* pretalx_rt_queuedmail_pre_send(sender, mail)
\* the handler taking the first submission of a mail that has any
queuedmail_pre_send_first_submission(m) ==
    LET sender == Mails[m].event
        h0     == [HdIdle EXCEPT !.op = "queuedmail_pre_send",
                                 !.event = sender, !.mail = m]
    IN  IF ~is_rt_enabled(sender)
        THEN [h0 EXCEPT !.pc = "done"]
        ELSE IF Mails[m].submissions # {}
             THEN LET s == CHOOSE s \in Mails[m].submissions : TRUE
                  IN  IF rt_ticket(s) = NoTicket
                      THEN [h0 EXCEPT !.pc = "create", !.submission = s]
                      ELSE [h0 EXCEPT !.pc = "mail", !.ticket = rt_ticket(s)]
             ELSE [h0 EXCEPT !.pc = "create"]

queuedmail_pre_send(m) ==
    LET sender == Mails[m].event
        h0     == [HdIdle EXCEPT !.op = "queuedmail_pre_send",
                                 !.event = sender, !.mail = m]
    IN  IF ~is_rt_enabled(sender)
        THEN [h0 EXCEPT !.pc = "done"]
        ELSE IF Cardinality(Mails[m].submissions) = 1
             THEN LET s == CHOOSE s \in Mails[m].submissions : TRUE
                  IN  IF rt_ticket(s) = NoTicket
                      THEN [h0 EXCEPT !.pc = "create", !.submission = s]
                      ELSE [h0 EXCEPT !.pc = "mail", !.ticket = rt_ticket(s)]
             ELSE [h0 EXCEPT !.pc = "create"]

\* pretalx_rt_submission_pre_save(sender, instance); persisted = instance.pk
submission_pre_save(s, persisted) ==
    LET h0 == [HdIdle EXCEPT !.op = "submission_pre_save",
                             !.event = Submissions[s].event, !.submission = s]
    IN  IF ~persisted
        THEN [h0 EXCEPT !.pc = "done"]
        ELSE IF ~is_rt_enabled(Submissions[s].event)
             THEN [h0 EXCEPT !.pc = "done"]
             ELSE IF rt_ticket(s) # NoTicket
                  THEN [h0 EXCEPT !.pc = "push", !.ticket = rt_ticket(s)]
                  ELSE [h0 EXCEPT !.pc = "done"]

\* an operation is called or a signal is dispatched
HdStart ==
    /\ hd.pc = "idle"
    /\ \/ CreateCall(hd')
       \/ \E s \in SubmissionIds : hd' = submission_state_change(s)
       \/ \E m \in MailIds : hd' = queuedmail_pre_send(m)
       \/ \E s \in SubmissionIds, persisted \in BOOLEAN :
            hd' = submission_pre_save(s, persisted)
    /\ last' = NoLast
    /\ call' = call
    /\ sm' = sm
    /\ hd2' = hd2
    /\ UNCHANGED <<rt, tickets, mailSent, mailLinks, tasks, clock, nullsFirst,
                   am, sq, pp, pl>>

\* rt.create_ticket(queue=..., subject=..., Requestor=..., Status=..., ...) and
\* Ticket(event=..., rt_id=rt_id[, submission=submission]); the RT server holds
\* at most MaxRt tickets and refuses a further one
HdCreate ==
    /\ hd.pc = "create"
    /\ \E ok \in BOOLEAN :
        LET e == hd.event
            s == hd.submission
            r == IF s # NoSubmission
                 THEN NewRemote(rt_settings[e].queue, Submissions[s].title,
                                requestors(Submissions[s].speakers),
                                rt_settings[e].initial_status,
                                CustomFieldsOf(e, Submissions[s].code,
                                               Submissions[s].state))
                 ELSE NewRemote(rt_settings[e].queue, Mails[hd.mail].subject,
                                requestors(Mails[hd.mail].to_users),
                                rt_settings[e].initial_status,
                                CustomFieldsOf(e, "", ""))
        IN  /\ ok => Len(rt) < MaxRt
            /\ rt' = IF ok THEN Append(rt, r) ELSE rt
            /\ hd' = IF ok
                     THEN [hd EXCEPT !.pc = "pull",
                                     !.ticket = NewTicket(e, Len(rt) + 1, s),
                                     !.calls = Append(@, Call("create_ticket",
                                                   Len(rt) + 1, TRUE, NoFields))]
                     ELSE [hd EXCEPT !.pc = "done", !.err = "create_ticket",
                                     !.calls = Append(@, Call("create_ticket",
                                                   0, FALSE, NoFields))]
    /\ last' = NoLast
    /\ call' = call
    /\ sm' = sm
    /\ hd2' = hd2
    /\ UNCHANGED <<tickets, mailSent, mailLinks, tasks, clock, nullsFirst,
                   am, sq, pp, pl>>

\* self.pull(ticket) / pretalx_rt_pull(event, ticket) on the new instance:
\* rt_ticket = rt.get_ticket(...)
HdPullFetch ==
    /\ hd.pc = "pull"
    /\ \E ok \in BOOLEAN :
        /\ MayCall(hd.ticket.rt_id, ok)
        /\ hd' = IF ok
                 THEN [hd EXCEPT !.pc = "save",
                                 !.fetched = Fetched(rt[hd.ticket.rt_id]),
                                 !.calls = Append(@, Call("get_ticket",
                                               hd.ticket.rt_id, TRUE, NoFields))]
                 ELSE [hd EXCEPT !.pc = "done", !.err = "get_ticket",
                                 !.calls = Append(@, Call("get_ticket",
                                               hd.ticket.rt_id, FALSE, NoFields))]
    /\ last' = NoLast
    /\ call' = call
    /\ sm' = sm
    /\ hd2' = hd2
    /\ UNCHANGED <<rt, tickets, mailSent, mailLinks, tasks, clock, nullsFirst,
                   am, sq, pp, pl>>

\* the assignments of the pull and ticket.save(), which inserts the row; then
\* the creating operation returns the ticket and its caller goes on
HdPullSave ==
    /\ hd.pc = "save"
    /\ LET w == save(tickets, pull_fields(hd.ticket, hd.fetched, clock), clock)
       IN  /\ tickets' = w.rows
           /\ hd' = IF ~w.ok
                    THEN [hd EXCEPT !.pc = "done", !.err = "IntegrityError"]
                    ELSE [hd EXCEPT
                            !.pc = CASE hd.op = "submission_state_change" -> "push"
                                     [] hd.op = "queuedmail_pre_send" -> "mail"
                                     [] OTHER -> "done",
                            !.ticket = w.rows[w.pk],
                            !.fetched = NoFetched]
    /\ last' = NoLast
    /\ call' = call
    /\ sm' = sm
    /\ hd2' = hd2
    /\ UNCHANGED <<rt, mailSent, mailLinks, tasks, clock, nullsFirst,
                   am, sq, pp, pl>>

\* pretalx_rt_push(sender, ticket), the last statement of the submission handlers
HdPush ==
    /\ hd.pc = "push"
    /\ \E ok \in BOOLEAN :
        LET r == pretalx_rt_push(hd.event, hd.ticket, ok)
        IN  /\ MayCall(hd.ticket.rt_id, ok)
            /\ rt' = r.rt
            /\ am' = IF r.rt # rt THEN Touch(hd.ticket.rt_id) ELSE am
            /\ hd' = [hd EXCEPT !.pc = "done",
                                !.err = IF r.raised THEN "edit_ticket" ELSE "",
                                !.calls = @ \o r.calls]
    /\ last' = NoLast
    /\ call' = call
    /\ sm' = sm
    /\ hd2' = hd2
    /\ UNCHANGED <<tickets, mailSent, mailLinks, tasks, clock, nullsFirst,
                   sq, pp, pl>>

\* create_rt_mail(sender, ticket, mail), the last statement of the mail
\* handler, or add_mail_to_ticket(ticket, mail)
HdMail ==
    /\ hd.pc = "mail"
    /\ am.pc = "idle"
    /\ \E ok \in BOOLEAN :
        /\ MayCall(hd.ticket.rt_id, ok)
        /\ am' = am_begin(hd.ticket, hd.mail,
                          IF hd.op = "add_mail_to_ticket"
                          THEN <<"mail", "RTSync">>
                          ELSE <<"mail", "signals">>, ok)
    /\ hd' = [hd EXCEPT !.pc = "in_mail"]
    /\ last' = NoLast
    /\ call' = call
    /\ sm' = sm
    /\ hd2' = hd2
    /\ UNCHANGED <<rt, tickets, mailSent, mailLinks, tasks, clock, nullsFirst,
                   sq, pp, pl>>

\* create_rt_mail / add_mail_to_ticket has returned or raised, and with it the
\* handler or the operation that called it
HdMailReturn ==
    /\ hd.pc = "in_mail"
    /\ am.pc = "done"
    /\ hd' = [hd EXCEPT !.pc = "done", !.err = am.raised,
                        !.calls = @ \o am.calls]
    /\ am' = AmIdle
    /\ last' = NoLast
    /\ call' = call
    /\ sm' = sm
    /\ hd2' = hd2
    /\ UNCHANGED <<rt, tickets, mailSent, mailLinks, tasks, clock, nullsFirst,
                   sq, pp, pl>>

\* the operation has returned or raised
HdReturn ==
    /\ hd.pc = "done"
    /\ hd' = HdIdle
    /\ last' = NoLast
    /\ call' = call
    /\ sm' = sm
    /\ hd2' = hd2
    /\ UNCHANGED <<rt, tickets, mailSent, mailLinks, tasks, clock, nullsFirst,
                   am, sq, pp, pl>>

\* A second invocation of pretalx_rt_submission_state_change, in another
\* worker: the same statements as the first, on its own local variables.
Hd2Start ==
    /\ hd2.pc = "idle"
    /\ \E s \in SubmissionIds : hd2' = submission_state_change(s)
    /\ last' = NoLast
    /\ call' = call
    /\ sm' = sm
    /\ UNCHANGED <<rt, tickets, mailSent, mailLinks, tasks, clock, nullsFirst,
                   am, sq, pp, hd, pl>>

\* create_rt_submission_ticket: id = rt.create_ticket(...)
Hd2Create ==
    /\ hd2.pc = "create"
    /\ \E ok \in BOOLEAN :
        LET e == hd2.event
            s == hd2.submission
            r == NewRemote(rt_settings[e].queue, Submissions[s].title,
                           requestors(Submissions[s].speakers),
                           rt_settings[e].initial_status,
                           CustomFieldsOf(e, Submissions[s].code,
                                          Submissions[s].state))
        IN  /\ ok => Len(rt) < MaxRt
            /\ rt' = IF ok THEN Append(rt, r) ELSE rt
            /\ hd2' = IF ok
                      THEN [hd2 EXCEPT !.pc = "pull",
                                       !.ticket = NewTicket(e, Len(rt) + 1, s),
                                       !.calls = Append(@, Call("create_ticket",
                                                     Len(rt) + 1, TRUE, NoFields))]
                      ELSE [hd2 EXCEPT !.pc = "done", !.err = "create_ticket",
                                       !.calls = Append(@, Call("create_ticket",
                                                     0, FALSE, NoFields))]
    /\ last' = NoLast
    /\ call' = call
    /\ sm' = sm
    /\ UNCHANGED <<tickets, mailSent, mailLinks, tasks, clock, nullsFirst,
                   am, sq, pp, hd, pl>>

\* pretalx_rt_pull on the new instance: rt_ticket = rt.get_ticket(ticket.id)
Hd2PullFetch ==
    /\ hd2.pc = "pull"
    /\ \E ok \in BOOLEAN :
        /\ MayCall(hd2.ticket.rt_id, ok)
        /\ hd2' = IF ok
                  THEN [hd2 EXCEPT !.pc = "save",
                                   !.fetched = Fetched(rt[hd2.ticket.rt_id]),
                                   !.calls = Append(@, Call("get_ticket",
                                                 hd2.ticket.rt_id, TRUE, NoFields))]
                  ELSE [hd2 EXCEPT !.pc = "done", !.err = "get_ticket",
                                   !.calls = Append(@, Call("get_ticket",
                                                 hd2.ticket.rt_id, FALSE, NoFields))]
    /\ last' = NoLast
    /\ call' = call
    /\ sm' = sm
    /\ UNCHANGED <<rt, tickets, mailSent, mailLinks, tasks, clock, nullsFirst,
                   am, sq, pp, hd, pl>>

\* pretalx_rt_pull: the assignments and ticket.save(), which inserts the row
Hd2PullSave ==
    /\ hd2.pc = "save"
    /\ LET w == save(tickets, pull_fields(hd2.ticket, hd2.fetched, clock), clock)
       IN  /\ tickets' = w.rows
           /\ hd2' = IF ~w.ok
                     THEN [hd2 EXCEPT !.pc = "done", !.err = "IntegrityError"]
                     ELSE [hd2 EXCEPT !.pc = "push",
                                      !.ticket = w.rows[w.pk],
                                      !.fetched = NoFetched]
    /\ last' = NoLast
    /\ call' = call
    /\ sm' = sm
    /\ UNCHANGED <<rt, mailSent, mailLinks, tasks, clock, nullsFirst,
                   am, sq, pp, hd, pl>>

\* pretalx_rt_push(sender, ticket)
Hd2Push ==
    /\ hd2.pc = "push"
    /\ \E ok \in BOOLEAN :
        LET r == pretalx_rt_push(hd2.event, hd2.ticket, ok)
        IN  /\ MayCall(hd2.ticket.rt_id, ok)
            /\ rt' = r.rt
            /\ am' = IF r.rt # rt THEN Touch(hd2.ticket.rt_id) ELSE am
            /\ hd2' = [hd2 EXCEPT !.pc = "done",
                                  !.err = IF r.raised THEN "edit_ticket" ELSE "",
                                  !.calls = @ \o r.calls]
    /\ last' = NoLast
    /\ call' = call
    /\ sm' = sm
    /\ UNCHANGED <<tickets, mailSent, mailLinks, tasks, clock, nullsFirst,
                   sq, pp, hd, pl>>

\* the second handler has returned or raised
Hd2Return ==
    /\ hd2.pc = "done"
    /\ hd2' = HdIdle
    /\ last' = NoLast
    /\ call' = call
    /\ sm' = sm
    /\ UNCHANGED <<rt, tickets, mailSent, mailLinks, tasks, clock, nullsFirst,
                   am, sq, pp, hd, pl>>

----------------------------------------------------------------------------
\* The pure functions: requestors and the credential of RTSync.__init__

NoCall == [fn |-> ""]

\* the sequences over S of length at most n
SeqsUpTo(S, n) == UNION {[1..k -> S] : k \in 0..n}

\* the user of the example: name "A@B", email "a@b.com"
ExampleUser ==
    [name  |-> <<"A", "@", "B">>,
     email |-> <<"a", "@", "b", ".", "c", "o", "m">>]

\* the users requestors is called with
SomeUsers ==
    {[name |-> n, email |-> <<"c", "@", "d">>] : n \in SeqsUpTo({"A", "@"}, MaxName)}
    \cup {ExampleUser}

\* rest_auth_token values; "" is the empty token
Tokens == {"", "tk1", "tk2"}

\* the user argument of RTSync(event, user): given = FALSE is user=None,
\* has_settings is hasattr(user, "rt_settings")
UserArgs ==
    [given : BOOLEAN, has_settings : BOOLEAN, rest_auth_token : Tokens]

\* the token expression of __init__ with the test for an empty token left out
token_any_user_token(event_token, user) ==
    IF user.given /\ user.has_settings
    THEN user.rest_auth_token
    ELSE event_token

\* token = (user.rt_settings.rest_auth_token
\*          if user and hasattr(user, "rt_settings")
\*             and user.rt_settings.rest_auth_token
\*          else event.rt_settings.rest_auth_token)
token(event_token, user) ==
    IF user.given /\ user.has_settings /\ user.rest_auth_token # ""
    THEN user.rest_auth_token
    ELSE event_token

NoClient == [token |-> "", built |-> FALSE]

\* requestors(users) is called and returns
Requestors ==
    /\ call.fn = "requestors"
    /\ ~call.returned
    /\ call' = [call EXCEPT !.returned = TRUE, !.result = requestors(call.users)]
    /\ UNCHANGED <<rt, tickets, mailSent, mailLinks, tasks, clock, nullsFirst,
                   am, sq, pp, hd, hd2, sm, pl, last>>

\* RTSync(event, user): self.rt = Rt(url=..., token=token)
RTSyncInit ==
    /\ call.fn = "RTSync"
    /\ ~call.client.built
    /\ call' = [call EXCEPT
                  !.client = [token |-> token(call.event_token, call.user),
                              built |-> TRUE],
                  !.at     = [event_token |-> call.event_token,
                              user        |-> call.user]]
    /\ UNCHANGED <<rt, tickets, mailSent, mailLinks, tasks, clock, nullsFirst,
                   am, sq, pp, hd, hd2, sm, pl, last>>

\* the settings are edited while the RTSync object is in use
SettingsChange ==
    /\ call.fn = "RTSync"
    /\ call.client.built
    /\ \E t \in Tokens, u \in UserArgs :
        /\ u.given = call.user.given
        /\ <<t, u>> # <<call.event_token, call.user>>
        /\ call' = [call EXCEPT !.event_token = t, !.user = u]
    /\ UNCHANGED <<rt, tickets, mailSent, mailLinks, tasks, clock, nullsFirst,
                   am, sq, pp, hd, hd2, sm, pl, last>>

----------------------------------------------------------------------------
\* RTBackend.send_messages (mail.py)

\* the greatest number of messages in a batch
MaxBatch == 2

\* message.extra_headers without "X-Pretalx-RT-Ticket"
NoHeader == 0

\* an EmailMessage: the event of its "X-Pretalx-Event" header, the ticket id
\* of its "X-Pretalx-RT-Ticket" header (NoHeader if absent), subject, to
EmailMessage(e, ticket_id, subject) ==
    [event |-> e, ticket_id |-> ticket_id, subject |-> subject,
     to    |-> requestors(<<Users.u2>>)]

\* the messages the backend is given
EmailMessages ==
    {EmailMessage("e1", 1, "M1"),
     EmailMessage("e1", NoHeader, "M1"),
     EmailMessage("e2", NoHeader, "M2")}

\* the local name c before its first assignment
Unbound == ""

\* one entry of the record of the remote calls of send_messages: the call, the
\* ticket, the outcome, the event whose settings built the client, and the
\* index of the message in the batch
BackendCall(name, rid, ok, client, i) ==
    [c |-> name, rid |-> rid, ok |-> ok, client |-> client, msg |-> i]

SmIdle ==
    [pc        |-> "idle",
     batch     |-> <<>>,     \* email_messages
     i         |-> 0,        \* the index of `message`
     c         |-> Unbound,  \* the local c: the event whose settings built it
     ticket_id |-> 0,        \* the local ticket_id
     ticket    |-> NoSnap,   \* the local ticket: the fields read before the try
     pending   |-> FALSE,    \* an exception of the try block is propagating
     raised    |-> "",       \* the exception send_messages ends with
     calls     |-> <<>>]     \* the remote calls issued

\* send_messages(email_messages) is called
SmStart ==
    /\ sm.pc = "idle"
    /\ \E n \in 1..MaxBatch : \E batch \in [1..n -> EmailMessages] :
        sm' = [SmIdle EXCEPT !.pc = "message", !.batch = batch, !.i = 1]
    /\ last' = NoLast
    /\ call' = call
    /\ hd2' = hd2
    /\ UNCHANGED <<rt, tickets, mailSent, mailLinks, tasks, clock, nullsFirst,
                   am, sq, pp, hd, pl>>

\* the head of the loop body: with the header, ticket_id is the header's
\* value and c is left as it is; without it, c is built from the event's
\* settings and create_ticket makes a ticket (or raises)
SmMessage ==
    /\ sm.pc = "message"
    /\ LET message == sm.batch[sm.i] IN
        IF message.ticket_id # NoHeader
        THEN /\ sm' = [sm EXCEPT !.pc = "get", !.ticket_id = message.ticket_id]
             /\ rt' = rt
        ELSE \E ok \in BOOLEAN :
              /\ ok => Len(rt) < MaxRt
              /\ IF ok
                 THEN /\ rt' = Append(rt, NewRemote(rt_settings[message.event].queue,
                                                    message.subject, message.to,
                                                    "resolved",
                                                    CustomFieldsOf(message.event, "", "")))
                      /\ sm' = [sm EXCEPT
                                  !.pc = "get", !.c = message.event,
                                  !.ticket_id = Len(rt) + 1,
                                  !.calls = Append(@, BackendCall("create_ticket",
                                                Len(rt) + 1, TRUE, message.event, sm.i))]
                 ELSE /\ rt' = rt
                      /\ sm' = [sm EXCEPT
                                  !.pc = "done", !.c = message.event,
                                  !.raised = "RtError",
                                  !.calls = Append(@, BackendCall("create_ticket",
                                                0, FALSE, message.event, sm.i))]
    /\ last' = NoLast
    /\ call' = call
    /\ hd2' = hd2
    /\ UNCHANGED <<tickets, mailSent, mailLinks, tasks, clock, nullsFirst,
                   am, sq, pp, hd, pl>>

\* ticket = c.get_ticket(ticket_id), before the try: reading c while it is
\* unbound raises UnboundLocalError, and a failing call raises too
SmGet ==
    /\ sm.pc = "get"
    /\ IF sm.c = Unbound
       THEN sm' = [sm EXCEPT !.pc = "done", !.raised = "UnboundLocalError"]
       ELSE \E ok \in BOOLEAN :
              /\ MayCall(sm.ticket_id, ok)
              /\ sm' = [sm EXCEPT
                          !.pc = IF ok THEN "override" ELSE "done",
                          !.ticket = IF ok THEN Snapshot(rt[sm.ticket_id]) ELSE @,
                          !.raised = IF ok THEN @ ELSE "RtError",
                          !.calls = Append(@, BackendCall("get_ticket", sm.ticket_id,
                                                          ok, sm.c, sm.i))]
    /\ last' = NoLast
    /\ call' = call
    /\ hd2' = hd2
    /\ UNCHANGED <<rt, tickets, mailSent, mailLinks, tasks, clock, nullsFirst,
                   am, sq, pp, hd, pl>>

\* c.edit_ticket(ticket_id, Requestor=message.to, Subject=message.subject)
SmOverride ==
    /\ sm.pc = "override"
    /\ \E ok \in BOOLEAN :
        /\ MayCall(sm.ticket_id, ok)
        /\ rt' = IF ok
                 THEN [rt EXCEPT ![sm.ticket_id] =
                          EditRemote(@, [Requestor |-> sm.batch[sm.i].to,
                                         Subject   |-> sm.batch[sm.i].subject])]
                 ELSE rt
        /\ sm' = [sm EXCEPT
                    !.pc = IF ok THEN "reply" ELSE "restore",
                    !.pending = ~ok,
                    !.calls = Append(@, BackendCall("edit_ticket", sm.ticket_id,
                                                    ok, sm.c, sm.i))]
    /\ last' = NoLast
    /\ call' = call
    /\ hd2' = hd2
    /\ UNCHANGED <<tickets, mailSent, mailLinks, tasks, clock, nullsFirst,
                   am, sq, pp, hd, pl>>

\* c.reply(ticket_id, content=message.body, content_type="text/plain")
SmReply ==
    /\ sm.pc = "reply"
    /\ \E ok \in BOOLEAN :
        /\ MayCall(sm.ticket_id, ok)
        /\ sm' = [sm EXCEPT
                    !.pc = "restore",
                    !.pending = ~ok,
                    !.calls = Append(@, BackendCall("reply", sm.ticket_id,
                                                    ok, sm.c, sm.i))]
    /\ last' = NoLast
    /\ call' = call
    /\ hd2' = hd2
    /\ UNCHANGED <<rt, tickets, mailSent, mailLinks, tasks, clock, nullsFirst,
                   am, sq, pp, hd, pl>>

\* the finally clause: c.edit_ticket(ticket_id, Requestor=ticket["Requestor"],
\* Subject=ticket["Subject"], Status=ticket["Status"]); then the exception of
\* the try block or of this call propagates, or the loop goes on
SmRestore ==
    /\ sm.pc = "restore"
    /\ \E ok \in BOOLEAN :
        /\ MayCall(sm.ticket_id, ok)
        /\ rt' = IF ok
                 THEN [rt EXCEPT ![sm.ticket_id] = EditRemote(@, sm.ticket)]
                 ELSE rt
        /\ sm' = [sm EXCEPT
                    !.pc = IF ok /\ ~sm.pending /\ sm.i < Len(sm.batch)
                           THEN "message" ELSE "done",
                    !.i = IF ok /\ ~sm.pending THEN @ + 1 ELSE @,
                    !.pending = FALSE,
                    !.raised = IF ok /\ ~sm.pending THEN @ ELSE "RtError",
                    !.calls = Append(@, BackendCall("edit_ticket", sm.ticket_id,
                                                    ok, sm.c, sm.i))]
    /\ last' = NoLast
    /\ call' = call
    /\ hd2' = hd2
    /\ UNCHANGED <<tickets, mailSent, mailLinks, tasks, clock, nullsFirst,
                   am, sq, pp, hd, pl>>

\* send_messages has returned or raised
SmReturn ==
    /\ sm.pc = "done"
    /\ sm' = SmIdle
    /\ last' = NoLast
    /\ call' = call
    /\ hd2' = hd2
    /\ UNCHANGED <<rt, tickets, mailSent, mailLinks, tasks, clock, nullsFirst,
                   am, sq, pp, hd, pl>>

----------------------------------------------------------------------------
\* Initial states

\* a row as a pull at minute ts left it (ts = Null: a row that predates the
\* sync_timestamp column)
Row(pk, e, rid, s, subject, status, ts) ==
    [pk |-> pk, event |-> e, rt_id |-> rid, submission |-> s,
     subject |-> subject, status |-> status, queue |-> rt_settings[e].queue,
     sync_timestamp |-> ts]

\* the remote ticket of submission s, as create_submission_ticket and push
\* leave it, in status st
RemoteOf(s, st) ==
    NewRemote(rt_settings[Submissions[s].event].queue,
              Submissions[s].title,
              requestors(Submissions[s].speakers),
              st,
              CustomFieldsOf(Submissions[s].event, Submissions[s].code,
                             Submissions[s].state))

\* the remote ticket of a standalone mail, as create_mail_ticket leaves it
RemoteOfMail(m, st) ==
    NewRemote(rt_settings[Mails[m].event].queue,
              Mails[m].subject,
              requestors(Mails[m].to_users),
              st,
              CustomFieldsOf(Mails[m].event, "", ""))

InitIdle ==
    /\ mailSent = [m \in MailIds |-> Null]
    /\ mailLinks = {}
    /\ tasks = <<>>
    /\ clock = 0
    /\ am = AmIdle
    /\ pl = PlIdle
    /\ pp = PpIdle
    /\ sq = SqIdle
    /\ hd = HdIdle
    /\ hd2 = HdIdle
    /\ sm = SmIdle
    /\ last = NoLast

\* The remote ticket of submission S1, in any status, and its row.
InitMail ==
    /\ InitIdle
    /\ call = NoCall
    /\ \E st1 \in RtStatuses :
        /\ rt = <<RemoteOf("S1", st1)>>
        /\ tickets = <<Row(1, "e1", 1, "S1", "T1", st1, 0)>>
    /\ nullsFirst = TRUE

NextMail ==
    \/ AmStart /\ am'.mail \in {"", "m1"}
    \/ AmOverride \/ AmReply \/ AmComment \/ AmSaveMail \/ AmLink
    \/ AmRestore \/ AmReturn
    \/ PretalxRtPush

\* add_mail_to_ticket and add_comment_to_ticket, next to the pushes of the
\* submission pre-save handler
SpecMail == InitMail /\ [][NextMail]_vars

\* The remote tickets of submission S1 and of a standalone mail, and their rows.
InitPushPull ==
    /\ InitIdle
    /\ call = NoCall
    /\ rt = <<RemoteOf("S1", "resolved"), RemoteOfMail("m1", "resolved")>>
    /\ tickets = <<Row(1, "e1", 1, "S1", "T1", "resolved", 0),
                   Row(2, "e1", 2, NoSubmission, "M1", "resolved", 0)>>
    /\ nullsFirst = TRUE

NextPushPull ==
    \/ TaskPush \/ PretalxRtPush \/ PlFetch \/ PlSave \/ ExternalEdit \/ Tick

\* push, the pull task it schedules, RT users and the clock
SpecPushPull == InitPushPull /\ [][NextPushPull]_vars

\* Three submission-linked tickets, of S1 and S2 (event e1, enabled) and of S3
\* (event e2, disabled), each synced at minute 0 or never (rows that predate
\* the sync_timestamp column), on either kind of database.
InitPeriodic ==
    /\ InitIdle
    /\ call = NoCall
    /\ rt = <<RemoteOf("S1", "resolved"), RemoteOf("S2", "resolved"),
              RemoteOf("S3", "resolved")>>
    /\ \E ts \in [1..3 -> {Null, 0}] :
        tickets = <<Row(1, "e1", 1, "S1", "T1", "resolved", ts[1]),
                    Row(2, "e1", 2, "S2", "T2", "resolved", ts[2]),
                    Row(3, "e2", 3, "S3", "T3", "resolved", ts[3])>>
    /\ nullsFirst \in BOOLEAN

NextPeriodic ==
    \/ PpStart \/ PpExamine \/ PpPullFetch \/ PpPullSave \/ PpReturn \/ Tick

\* the periodic passes and the clock
SpecPeriodic == InitPeriodic /\ [][NextPeriodic]_vars

\* pretalx_rt_pull whose rt.get_ticket succeeds
PpPullFetchOk == PpPullFetch /\ pp'.err = ""

NextPeriodicLive ==
    \/ PpStart \/ PpExamine \/ PpPullFetchOk \/ PpPullSave \/ PpReturn \/ Tick

\* The periodic task keeps being run (pretalx sends periodic_task from its
\* runperiodic command), a pass that has begun runs on to its end, and every
\* pull succeeds; the clock moves as it likes.
SpecPeriodicLive ==
    /\ InitPeriodic
    /\ [][NextPeriodicLive]_vars
    /\ WF_vars(PpStart)
    /\ WF_vars(PpExamine)
    /\ WF_vars(PpPullFetchOk)
    /\ WF_vars(PpPullSave)
    /\ WF_vars(PpReturn)

\* a remote ticket of queue q1 whose submission-code field an RT user has set
\* to `code` ("" = left empty)
RemoteWithCode(code) ==
    NewRemote(rt_settings["e1"].queue, "T", requestors(<<Users.u1>>), "new",
              CustomFieldsOf("e1", code, IF code = "" THEN "" ELSE "submitted"))

\* The queue of event e1 holds MaxQueue remote tickets, each with no submission
\* code, the code of S1 or S2 (event e1) or the code of S3 (event e2); the
\* table is empty or has one row of e1, standalone or linked to S1.
InitQueue ==
    /\ InitIdle
    /\ call = NoCall
    /\ \E codes \in [1..MaxQueue -> {"", "S1", "S2", "S3"}] :
        rt = [rid \in 1..MaxQueue |-> RemoteWithCode(codes[rid])]
    /\ \/ tickets = <<>>
       \/ \E rid \in 1..MaxQueue, s \in {NoSubmission, "S1"} :
            tickets = <<Row(1, "e1", rid, s, "T", "new", 0)>>
    /\ nullsFirst = TRUE

NextQueue ==
    \/ SqStart \/ SqItem \/ SqPush \/ SqReturn \/ PlFetch \/ PlSave

\* sync_queue passes and the pull tasks their pushes schedule
SpecQueue == InitQueue /\ [][NextQueue]_vars

\* no operation is in flight
Quiet ==
    /\ am.pc = "idle"
    /\ sq.pc = "idle"
    /\ hd.pc = "idle"
    /\ pl.pc = "idle"
    /\ pp.pc = "idle"

\* An RT server without tickets and an empty table.
Init ==
    /\ InitIdle
    /\ call = NoCall
    /\ rt = <<>>
    /\ tickets = <<>>
    /\ nullsFirst = TRUE

\* The operations one after the other: one begins when none is in flight.
\* The mail is m1.
\* (The periodic pass, which needs the clock, is in SpecPeriodic.)
Next ==
    \/ Quiet /\ HdStart /\ hd'.mail \in {"", "m1"}
    \/ Quiet /\ SqStart
    \/ Quiet /\ TaskPush
    \/ Quiet /\ PlFetch
    \/ HdCreate \/ HdPullFetch \/ HdPullSave \/ HdPush \/ HdMail
    \/ HdMailReturn \/ HdReturn
    \/ SqItem \/ SqPush \/ SqReturn
    \/ AmOverride \/ AmReply \/ AmSaveMail \/ AmLink \/ AmRestore
    \/ PlSave

\* every sequence of the operations and handlers, from the empty system
Spec == Init /\ [][Next]_vars

\* A call of requestors with at most MaxUsers users, or the construction of an
\* RTSync object for an event token and a user; nothing else exists.
InitPure ==
    /\ InitIdle
    /\ rt = <<>>
    /\ tickets = <<>>
    /\ nullsFirst = TRUE
    /\ \/ \E users \in SeqsUpTo(SomeUsers, MaxUsers) :
            call = [fn |-> "requestors", users |-> users,
                    returned |-> FALSE, result |-> <<>>]
       \/ \E t \in Tokens, u \in UserArgs :
            call = [fn |-> "RTSync", event_token |-> t, user |-> u,
                    client |-> NoClient,
                    at |-> [event_token |-> t, user |-> u]]

NextPure == Requestors \/ RTSyncInit \/ SettingsChange

\* the pure functions, applied to their inputs
SpecPure == InitPure /\ [][NextPure]_vars

\* The three handlers and create_submission_ticket one after the other, with
\* every mail, the periodic pass and the clock; no sync_queue and no task.
NextHandlers ==
    \/ Quiet /\ HdStart /\ hd'.op \in {"submission_state_change",
                                        "queuedmail_pre_send",
                                        "submission_pre_save",
                                        "create_submission_ticket"}
    \/ Quiet /\ PpStart
    \/ Quiet /\ Tick
    \/ HdCreate \/ HdPullFetch \/ HdPullSave \/ HdPush \/ HdMail
    \/ HdMailReturn \/ HdReturn
    \/ AmOverride \/ AmReply \/ AmSaveMail \/ AmLink \/ AmRestore
    \/ PpExamine \/ PpPullFetch \/ PpPullSave \/ PpReturn

\* the signal handlers, from the empty system
SpecHandlers == Init /\ [][NextHandlers]_vars

\* The creating operations and the submission handlers next to sync_queue
\* passes, step by step: a pass may run between the remote creation of a
\* ticket and the insertion of its row.
NextRace ==
    \/ HdStart /\ hd'.op \in {"create_submission_ticket", "create_mail_ticket",
                              "submission_state_change", "submission_pre_save"}
               /\ hd'.mail \in {"", "m1"}
    \/ SqStart
    \/ HdCreate \/ HdPullFetch \/ HdPullSave \/ HdPush \/ HdReturn
    \/ SqItem \/ SqPush \/ SqReturn

\* ticket creation concurrent with sync_queue, from the empty system
SpecRace == Init /\ [][NextRace]_vars

\* The remote ticket of the first row has been deleted on the RT server: the
\* row of S1 names remote id 2, the server holds remote id 1 only.
InitPeriodicGone ==
    /\ InitIdle
    /\ call = NoCall
    /\ rt = <<RemoteOf("S2", "resolved")>>
    /\ \E ts \in [1..2 -> {Null, 0}] :
        tickets = <<Row(1, "e1", 2, "S1", "T1", "resolved", ts[1]),
                    Row(2, "e1", 1, "S2", "T2", "resolved", ts[2])>>
    /\ nullsFirst \in BOOLEAN

\* pretalx_rt_pull whose rt.get_ticket raises for the deleted ticket only
PpPullFetchGone ==
    PpPullFetch /\ (pp'.err = "" <=> pp.order[pp.i].rt_id \in RtIds)

NextPeriodicGone ==
    \/ PpStart \/ PpExamine \/ PpPullFetchGone \/ PpPullSave \/ PpReturn \/ Tick

\* periodic passes over a table one of whose remote tickets is gone; the
\* passes keep being run and every other pull succeeds
SpecPeriodicGone ==
    /\ InitPeriodicGone
    /\ [][NextPeriodicGone]_vars
    /\ WF_vars(PpStart)
    /\ WF_vars(PpExamine)
    /\ WF_vars(PpPullFetchGone)
    /\ WF_vars(PpPullSave)
    /\ WF_vars(PpReturn)

\* Two handlers for submission S1 step by step, from the empty system: a
\* state-change handler or the outgoing-mail handler of mail m1, and a second
\* state-change handler.
NextTwoHandlers ==
    \/ am.pc = "idle" /\ HdStart
                      /\ hd'.op \in {"submission_state_change",
                                     "queuedmail_pre_send"}
                      /\ hd'.submission \in {NoSubmission, "S1"}
                      /\ hd'.mail \in {"", "m1"}
    \/ HdCreate \/ HdPullFetch \/ HdPullSave \/ HdPush \/ HdMail
    \/ HdMailReturn \/ HdReturn
    \/ AmOverride \/ AmReply \/ AmSaveMail \/ AmLink \/ AmRestore
    \/ Hd2Start /\ hd2'.submission = "S1"
    \/ Hd2Create \/ Hd2PullFetch \/ Hd2PullSave \/ Hd2Push \/ Hd2Return

\* two concurrent handler invocations
SpecTwoHandlers == Init /\ [][NextTwoHandlers]_vars

\* Submission S1 has been renamed in pretalx: the remote ticket still shows
\* the former title, and the push of the pre-save handler is due.
InitMailRenamed ==
    /\ InitIdle
    /\ call = NoCall
    /\ \E st1 \in RtStatuses :
        /\ rt = <<[RemoteOf("S1", st1) EXCEPT !.Subject = "T0"]>>
        /\ tickets = <<Row(1, "e1", 1, "S1", "T0", st1, 0)>>
    /\ nullsFirst = TRUE

\* add_mail_to_ticket next to the push of the renamed submission
SpecMailRenamed == InitMailRenamed /\ [][NextMail]_vars

\* The table holds a row of event e2, linked to S3, whose remote id is also
\* the id of a ticket in the queue (the events use RT servers whose ticket
\* numbers overlap, or share one).
InitQueueOther ==
    /\ InitIdle
    /\ call = NoCall
    /\ \E codes \in [1..MaxQueue -> {"", "S1", "S2"}] :
        rt = [rid \in 1..MaxQueue |-> RemoteWithCode(codes[rid])]
    /\ \E rid \in 1..MaxQueue :
        tickets = <<Row(1, "e2", rid, "S3", "T3", "new", 0)>>
    /\ nullsFirst = TRUE

\* sync_queue passes over a table that holds a row of another event
SpecQueueOther == InitQueueOther /\ [][NextQueue]_vars

\* The RT server holds the ticket of S1, which the header of a message names.
InitBackend ==
    /\ InitIdle
    /\ call = NoCall
    /\ \E st1 \in RtStatuses :
        /\ rt = <<RemoteOf("S1", st1)>>
        /\ tickets = <<Row(1, "e1", 1, "S1", "T1", st1, 0)>>
    /\ nullsFirst = TRUE

NextBackend ==
    \/ SmStart \/ SmMessage \/ SmGet \/ SmOverride \/ SmReply \/ SmRestore
    \/ SmReturn

\* RTBackend.send_messages on batches of at most MaxBatch messages
SpecBackend == InitBackend /\ [][NextBackend]_vars

----------------------------------------------------------------------------
\* Claims about add_mail_to_ticket and add_comment_to_ticket (SpecMail)

\* the last remote call of the operation in flight
LastCall == am.calls[Len(am.calls)]

\* whether call c is the edit of the finally clause, carrying the snapshot
IsRestore(c) ==
    /\ c.c = "edit_ticket"
    /\ DOMAIN c.fields = {"Requestor", "Subject", "Status"}
    /\ c.fields.Requestor = am.old.Requestor
    /\ c.fields.Subject = am.old.Subject
    /\ c.fields.Status = am.old.Status

\* C1: whenever add_mail_to_ticket (or create_rt_mail) has left after a
\* successful snapshot read, its last remote call is the restore edit with
\* the snapshot's Requestor, Subject and Status, whichever step failed; and if
\* that edit succeeded and nobody else wrote the ticket, the remote ticket has
\* its pre-call Requestor, Subject and Status again.
C1_RestoreOnEveryExit ==
    (am.pc = "done" /\ am.kind = "mail" /\ am.calls[1].ok) =>
        /\ Len(am.calls) >= 2
        /\ IsRestore(LastCall)
        /\ (LastCall.ok /\ ~am.interfered) =>
               Snapshot(rt[am.ticket.rt_id]) = am.old

\* C1 witness: the reply failed, the restore edit succeeded, nobody interfered
C1_Witness ==
    /\ am.pc = "done"
    /\ am.kind = "mail"
    /\ am.err = "reply"
    /\ LastCall.ok
    /\ ~am.interfered

\* C10: when a primary step (override edit, reply, comment) failed and the
\* restore edit failed too, the caller observes the primary step's error.
C10_PrimaryErrorObserved ==
    (/\ am.pc = "done"
     /\ am.err \in {"edit_ticket", "reply", "comment"}
     /\ Len(am.calls) >= 2
     /\ ~LastCall.ok) => am.raised = am.err

\* the snapshot read, the override edit and the reply of the call in flight
\* have all succeeded, on its ticket
Replied ==
    /\ am.kind = "mail"
    /\ Len(am.calls) >= 3
    /\ \A i \in 1..3 : am.calls[i].ok /\ am.calls[i].rid = am.ticket.rt_id
    /\ am.calls[1].c = "get_ticket"
    /\ am.calls[2].c = "edit_ticket"
    /\ am.calls[3].c = "reply"

\* C24: a step marks a mail sent or links a mail to a ticket only for the
\* mail and the ticket of an add_mail_to_ticket whose snapshot read, override
\* edit and reply have succeeded; a call whose try block has ended without
\* an exception has marked its mail sent and linked it to its ticket.
C24_SentIffReplied ==
    /\ [][(mailSent' # mailSent \/ mailLinks' # mailLinks) =>
            /\ Replied
            /\ \A m \in MailIds : m # am.mail => mailSent'[m] = mailSent[m]
            /\ mailLinks' \subseteq mailLinks \cup {<<am.ticket.pk, am.mail>>}]_vars
    /\ []((am.pc \in {"finally", "done"} /\ am.kind = "mail") =>
            /\ (Replied /\ am.err = "") =>
                 /\ mailSent[am.mail] # Null
                 /\ <<am.ticket.pk, am.mail>> \in mailLinks
            /\ am.err \in {"edit_ticket", "reply"} => ~Replied)

\* the reply was delivered and the mail is marked sent and linked
C24_Witness ==
    /\ am.pc = "done"
    /\ Replied
    /\ am.err = ""
    /\ mailSent[am.mail] # Null
    /\ <<am.ticket.pk, am.mail>> \in mailLinks

\* C25: the remote calls of an add_mail_to_ticket are, in this order, the
\* snapshot read, the override edit with the mail's recipients and subject,
\* the reply and the restore edit, all on the ticket of the call; nothing
\* follows a failed snapshot read, only the restore follows a failed override
\* edit, and when the reply is about to be issued, no other actor having
\* written the remote ticket meanwhile, its Requestor and Subject are those of
\* the mail.
C25_CallOrder ==
    (am.kind = "mail") =>
        LET n == Len(am.calls)
        IN  /\ n \in 1..4
            /\ \A i \in 1..n : am.calls[i].rid = am.ticket.rt_id
            /\ am.calls[1].c = "get_ticket"
            /\ ~am.calls[1].ok => n = 1 /\ am.pc = "done"
            /\ n >= 2 => /\ am.calls[2].c = "edit_ticket"
                         /\ am.calls[2].fields = override_fields(am.mail)
            /\ (n >= 3 /\ ~am.calls[2].ok) => n = 3 /\ IsRestore(am.calls[3])
            /\ (n >= 3 /\ am.calls[2].ok) => am.calls[3].c = "reply"
            /\ n = 4 => IsRestore(am.calls[4])
            /\ am.pc = "reply" => n = 2 /\ am.calls[2].ok
            /\ am.pc = "done" => (n = 1 \/ IsRestore(LastCall))
            /\ (am.pc = "reply" /\ ~am.interfered) =>
                 /\ rt[am.ticket.rt_id].Requestor
                      = requestors(Mails[am.mail].to_users)
                 /\ rt[am.ticket.rt_id].Subject = Mails[am.mail].subject

\* all four calls have been made and have succeeded
C25_Witness ==
    /\ am.pc = "done"
    /\ am.kind = "mail"
    /\ Len(am.calls) = 4
    /\ \A i \in 1..4 : am.calls[i].ok

\* C26: add_comment_to_ticket reads the snapshot first and, when that read
\* succeeded, posts one comment (never a reply) and then issues the restore
\* edit with the Requestor, Subject and Status of the snapshot, whether the
\* comment was posted or raised; no step taken while it runs changes a Ticket
\* row, a mail's sent time or a mail link.
C26_CommentRestores ==
    /\ []((am.kind = "comment") =>
            LET n == Len(am.calls)
            IN  /\ n \in 1..3
                /\ \A i \in 1..n : /\ am.calls[i].rid = am.ticket.rt_id
                                    /\ am.calls[i].c # "reply"
                /\ am.calls[1].c = "get_ticket"
                /\ ~am.calls[1].ok => n = 1 /\ am.pc = "done"
                /\ n >= 2 => am.calls[2].c = "comment"
                /\ n = 3 => IsRestore(am.calls[3])
                /\ (am.pc = "done" /\ am.calls[1].ok) => n = 3)
    /\ [][(am.pc = "idle" /\ am'.kind = "comment" /\ am'.calls[1].ok) =>
            am'.old = Snapshot(rt[am'.ticket.rt_id])]_vars
    /\ [][(am.kind = "comment" /\ am'.kind = "comment") => am'.old = am.old]_vars
    /\ [][(am.kind = "comment" \/ am'.kind = "comment") =>
            UNCHANGED <<tickets, mailSent, mailLinks>>]_vars

\* the comment call failed and the restore edit was issued and succeeded
C26_Witness ==
    /\ am.pc = "done"
    /\ am.kind = "comment"
    /\ Len(am.calls) = 3
    /\ ~am.calls[2].ok
    /\ IsRestore(am.calls[3])
    /\ am.calls[3].ok

\* C28 (SpecMailRenamed): when an add_mail_to_ticket has ended with its
\* restore edit done, and a push wrote the remote ticket while it ran, the
\* remote Subject and Requestor are those the push wrote: the title and the
\* speakers of the submission.
C28_RestoreKeepsPush ==
    (/\ am.pc = "done"
     /\ am.kind = "mail"
     /\ am.interfered
     /\ Len(am.calls) >= 2
     /\ LastCall.ok)
    => /\ rt[am.ticket.rt_id].Subject = Submissions[am.ticket.submission].title
       /\ rt[am.ticket.rt_id].Requestor
            = requestors(Submissions[am.ticket.submission].speakers)

----------------------------------------------------------------------------
\* Claims about push and pull (SpecPushPull)

\* C4: a push (RTSync.push or pretalx_rt_push) on a ticket without a linked
\* submission issues no remote call, enqueues no pull task and leaves the RT
\* server, the task queue and the Ticket table as they were.
C4_PushUnlinkedNoop ==
    [][(/\ last'.op \in {"push", "pretalx_rt_push"}
        /\ tickets[last'.pk].submission = NoSubmission)
       => (/\ last'.calls = <<>>
           /\ last'.enq = 0
           /\ rt' = rt
           /\ tasks' = tasks
           /\ tickets' = tickets)]_vars

\* C4 witness: RTSync.push has just run on the standalone mail ticket
C4_Witness ==
    /\ last.op = "push"
    /\ tickets[last.pk].submission = NoSubmission

\* C5: the step that ends a pull whose fetch succeeded leaves the row with a
\* sync_timestamp at or after the minute the pull began and with the fetched
\* subject, status and queue; the step that ends a pull whose fetch failed
\* leaves the Ticket table unchanged.
C5_PullStampsOnSuccessOnly ==
    [][/\ (pl.pc = "save" /\ pl'.pc = "idle") =>
            LET row == tickets'[pl.ticket.pk]
            IN  /\ row.sync_timestamp >= pl.began
                /\ row.subject = pl.fetched.Subject
                /\ row.status = pl.fetched.Status
                /\ row.queue = pl.fetched.Queue
       /\ (pl.pc = "idle" /\ pl'.pc = "idle" /\ Len(tasks') < Len(tasks)) =>
            tickets' = tickets]_vars

\* C5 witness: a pull that began after minute 0 has stored a status that an
\* RT user had set meanwhile
C5_Witness ==
    /\ pl.pc = "idle"
    /\ tickets[1].sync_timestamp >= 1
    /\ tickets[1].status = "open"

\* C18: a push of a ticket that links a submission issues one remote call, an
\* edit_ticket of the ticket's remote id that sets Subject, Requestor and the
\* two custom fields from the submission, and no read; the rows are left as
\* they are; if the edit succeeded one pull task for (event id, ticket id) is
\* appended to the task queue, if it failed none is.
C18_PushEditsThenSchedules ==
    [][(last'.op = "push" /\ tickets[last'.pk].submission # NoSubmission) =>
          LET t == tickets[last'.pk]
              s == Submissions[t.submission]
              c == last'.calls[1]
          IN  /\ Len(last'.calls) = 1
              /\ c.c = "edit_ticket"
              /\ c.rid = t.rt_id
              /\ DOMAIN c.fields = {"Subject", "Requestor", "CustomFields"}
              /\ c.fields.Subject = s.title
              /\ Len(c.fields.Requestor) = Len(s.speakers)
              /\ Len(c.fields.CustomFields) = 2
              /\ get_custom_field(c.fields, rt_settings[t.event].custom_field_id)
                     = s.code
              /\ get_custom_field(c.fields, rt_settings[t.event].custom_field_state)
                     = s.state
              /\ tickets' = tickets
              /\ c.ok => /\ tasks' = Append(tasks, [event_id  |-> t.event,
                                                    ticket_id |-> t.pk])
                         /\ rt'[t.rt_id].Subject = s.title
              /\ ~c.ok => (tasks' = tasks /\ rt' = rt)]_vars

\* C18 witness: a push of a linked ticket has edited the remote ticket and
\* scheduled the pull
C18_Witness ==
    /\ last.op = "push"
    /\ last.enq = 1
    /\ Len(last.calls) = 1
    /\ last.calls[1].ok
    /\ tasks # <<>>
    /\ tickets[last.pk].submission # NoSubmission

----------------------------------------------------------------------------
\* Claims about sync_queue (SpecQueue)

\* C3: when the loop of sync_queue is at a remote ticket whose code is that of
\* a submission of the event which a row links to a different remote id, the
\* iteration changes no row, raises nothing and goes on to the next ticket.
C3_ConflictSkipped ==
    [][(/\ sq.pc = "loop"
        /\ sq.i <= Len(sq.queue)
        /\ pretalx_id \in submissions_by_code(sq.event)
        /\ \E k \in Pks : /\ tickets[k].submission = pretalx_id
                          /\ tickets[k].rt_id # sq.queue[sq.i].id
        /\ sq' # sq)
       => (/\ tickets' = tickets
           /\ sq'.pc = "loop"
           /\ sq'.i = sq.i + 1
           /\ sq'.err = "")]_vars

\* the positions of the queue whose code is that of a submission of the event
\* that no row linked when the pass began
Eligible ==
    {i \in DOMAIN sq.queue :
        LET code == get_custom_field(sq.queue[i],
                                     rt_settings[sq.event].custom_field_id)
        IN  /\ code \in submissions_by_code(sq.event)
            /\ code \notin DOMAIN sq.by_submission}

\* C6: a pass in which no remote call failed ends without an error, having
\* created one row for each remote ticket whose code is that of a submission
\* of the event no row linked, pushed exactly those, and modified no row.
C6_OneNewRowPerUnlinked ==
    (sq.pc = "done" /\ sq.err \notin {"search", "edit_ticket"}) =>
        /\ sq.err = ""
        /\ sq.new_tickets = Cardinality(Eligible)
        /\ sq.updated_tickets = 0
        /\ Len(sq.pushed) = Cardinality(Eligible)
        /\ \A j \in DOMAIN sq.pushed : \E i \in Eligible : sq.queue[i].id = sq.pushed[j]

\* the remote tickets a pass for event e beginning in this state would hand
\* to update_or_create and push first: those that pass the three skip tests
\* against the dictionaries built from the table as it is now
Upsertable(e) ==
    LET by_submission ==
            existing_tickets_by_submission(existing_tickets_by_rt(e))
        queue == search(rt_settings[e].queue)
    IN  {i \in DOMAIN queue :
            LET code == get_custom_field(queue[i],
                                         rt_settings[e].custom_field_id)
            IN  /\ code \in submissions_by_code(e)
                /\ code \notin DOMAIN by_submission}

\* C23: when a pass has ended without an exception, a second pass for the
\* same event beginning at once finds every remote ticket of the queue
\* skipped: it inserts no row, rewrites no row and pushes nothing.
C23_SecondPassIdle ==
    (sq.pc = "done" /\ sq.err = "") => Upsertable(sq.event) = {}

\* C29 (SpecQueueOther): a step of a sync_queue pass leaves the event and the
\* submission link of every row of another event as they are.
C29_OtherEventsRowsKept ==
    [][(sq.pc = "loop") =>
         \A k \in Pks :
            tickets[k].event # sq.event =>
                /\ tickets'[k].event = tickets[k].event
                /\ tickets'[k].submission = tickets[k].submission]_vars

----------------------------------------------------------------------------
\* Claims about the Ticket table (Spec)

\* C2: no two rows of the Ticket table link the same submission.
C2_OneTicketPerSubmission ==
    \A j, k \in Pks :
        (j # k /\ tickets[j].submission # NoSubmission)
        => tickets[j].submission # tickets[k].submission

\* C2 witness: a second ticket for a submission that a row links already has
\* been refused by the table
C2_Witness ==
    /\ hd.pc = "done"
    /\ hd.err = "IntegrityError"
    /\ \E k \in Pks : tickets[k].submission = hd.submission

\* C11: when the loop of sync_queue is at a remote ticket whose id a row has
\* that links another submission than the one the ticket's code names, the
\* iteration leaves the submission of that row as it is and raises nothing.
C11_RelinkRefused ==
    [][(/\ sq.pc = "loop"
        /\ sq.i <= Len(sq.queue)
        /\ pretalx_id \in submissions_by_code(sq.event)
        /\ \E k \in Pks : /\ tickets[k].rt_id = sq.queue[sq.i].id
                          /\ tickets[k].submission \notin {NoSubmission, pretalx_id}
        /\ sq' # sq)
       => (/\ \A k \in Pks :
                tickets[k].rt_id = sq.queue[sq.i].id
                => tickets'[k].submission = tickets[k].submission
           /\ sq'.err = "")]_vars

\* C15: every row of the table has the subject, status and queue of a remote
\* fetch (none of them is the empty string a new instance has).
C15_RowsPopulated ==
    \A k \in Pks :
        /\ tickets[k].subject # ""
        /\ tickets[k].status # ""
        /\ tickets[k].queue # ""

----------------------------------------------------------------------------
\* Claims about the periodic pass (SpecPeriodic)

\* the ticket the loop of the pass is at
Examined == pp.order[pp.i]

\* whether the loop is at a ticket, within the time budget
Examining ==
    /\ pp.pc = "loop"
    /\ pp.i <= Len(pp.order)
    /\ clock - pp.start <= BudgetMinutes

\* C7: the pass goes on to pull a ticket only if the ticket's sync_timestamp,
\* in the row as it is when the ticket is examined, is null or more than the
\* event's sync interval before the current time.
C7_NoPullWithinInterval ==
    [][(pp.pc = "loop" /\ pp'.pc = "pull") =>
          LET ts == tickets[Examined.pk].sync_timestamp
              e  == Submissions[Examined.submission].event
          IN  ts = Null \/ ~(clock - ts <= rt_settings[e].sync_interval)]_vars

\* C7 witness: a pull has been issued for a ticket that had been synced before
C7_Witness ==
    /\ pp.pc = "pull"
    /\ Examined.sync_timestamp # Null

C9_BudgetedPrefix ==
    /\ [](pp.pc # "idle" =>
            /\ \A i, j \in DOMAIN pp.order :
                 (/\ i < j
                  /\ pp.order[i].sync_timestamp # Null
                  /\ pp.order[j].sync_timestamp # Null)
                 => pp.order[i].sync_timestamp <= pp.order[j].sync_timestamp
            /\ \A j \in DOMAIN pp.pulled :
                 \E k \in DOMAIN pp.order :
                    /\ k < pp.i
                    /\ pp.order[k].pk = pp.pulled[j])
    /\ [][/\ (pp.pc # "idle" /\ pp'.pc # "idle") =>
               /\ pp'.i \in {pp.i, pp.i + 1}
               /\ pp'.order = pp.order
          /\ (pp.pc = "loop" /\ pp'.pc = "pull") =>
               clock - pp.start <= BudgetMinutes
          /\ (pp.pc = "loop" /\ clock - pp.start > BudgetMinutes /\ pp' # pp) =>
               (pp'.pc = "done" /\ pp'.pulled = pp.pulled /\ tickets' = tickets)
          /\ (pp.pc = "pull" /\ pp' # pp) =>
               (pp'.pc = "save" \/ (pp'.pc = "done" /\ pp'.err = "get_ticket"))
          /\ (pp.pc = "save" /\ pp' # pp) =>
               /\ pp'.pc = "loop"
               /\ pp'.pulled = Append(pp.pulled, Examined.pk)
               /\ tickets'[Examined.pk].sync_timestamp = clock]_vars

\* C9 witness: a pass that pulled a ticket has been cut short by the budget
C9_Witness ==
    /\ pp.pc = "done"
    /\ pp.err = ""
    /\ pp.i <= Len(pp.order)
    /\ pp.pulled # <<>>

----------------------------------------------------------------------------
\* Claims about the pure functions (SpecPure)

\* the number of '@' among the first k characters of name
AtsBefore(name, k) == Cardinality({j \in 1..k : name[j] = "@"})

\* whether text is name with every '@' written "(at)"
Escaped(name, text) ==
    /\ Len(text) = Len(name) + 3 * AtsBefore(name, Len(name))
    /\ \A k \in 1..Len(name) :
          LET at == k + 3 * AtsBefore(name, k - 1)
          IN  IF name[k] = "@"
              THEN SubSeq(text, at, at + 3) = <<"(", "a", "t", ")">>
              ELSE text[at] = name[k]

\* C16: the result of requestors has the length of users and its i-th element
\* is the i-th user's name with every '@' written "(at)", a space, and the
\* user's email between angle brackets; users given twice appear twice.
C16_RequestorsFormat ==
    (call.fn = "requestors" /\ call.returned) =>
        /\ Len(call.result) = Len(call.users)
        /\ \A i \in 1..Len(call.users) :
              LET r  == call.result[i]
                  u  == call.users[i]
                  nl == Len(r) - Len(u.email) - 3
              IN  /\ nl >= 0
                  /\ Escaped(u.name, SubSeq(r, 1, nl))
                  /\ SubSeq(r, nl + 1, Len(r)) = <<" ", "<">> \o u.email \o <<">">>

\* C16 witness: the user of the example, second in the list after a user whose
\* name has an '@' too, gives "A(at)B <a@b.com>"
C16_Witness ==
    /\ call.fn = "requestors"
    /\ call.returned
    /\ Len(call.users) = 2
    /\ call.users[1].name = <<"@">>
    /\ call.users[2] = ExampleUser
    /\ call.result[2] = <<"A", "(", "a", "t", ")", "B", " ", "<",
                          "a", "@", "b", ".", "c", "o", "m", ">">>

\* C20: the token of the client is the user's token if a user is given who
\* has settings with a non-empty token, the event's token in every other
\* case, as the settings were when the client was built; it does not change
\* afterwards.
C20_TokenResolvedOnce ==
    /\ []((call.fn = "RTSync" /\ call.client.built) =>
            /\ ~call.at.user.given => call.client.token = call.at.event_token
            /\ ~call.at.user.has_settings => call.client.token = call.at.event_token
            /\ call.at.user.rest_auth_token = "" =>
                   call.client.token = call.at.event_token
            /\ (/\ call.at.user.given
                /\ call.at.user.has_settings
                /\ call.at.user.rest_auth_token # "")
               => call.client.token = call.at.user.rest_auth_token)
    /\ [][(call.fn = "RTSync" /\ call.client.built) =>
              call'.client = call.client]_vars

\* C20 witness: a client built with the event's token for a user whose own
\* token is empty, the user's token having been set since
C20_Witness ==
    /\ call.fn = "RTSync"
    /\ call.client.built
    /\ call.at.user.given /\ call.at.user.has_settings
    /\ call.at.user.rest_auth_token = ""
    /\ call.user.rest_auth_token # ""
    /\ call.client.token = call.at.event_token
    /\ call.client.token # ""

\* C19: no step of the engine deletes a persisted row: after every step the
\* table holds every row it held before, under the same primary key.
C19_RowsOnlyGrow ==
    [][/\ Len(tickets') >= Len(tickets)
       /\ \A k \in Pks : tickets'[k].pk = tickets[k].pk]_vars

\* two rows are still there after a mail was added to one of them and a
\* sync_queue pass has ended
C19_Witness ==
    /\ Len(tickets) = 2
    /\ mailLinks # {}
    /\ sq.pc = "done"

\* row k links a submission of an enabled event and was last pulled longer
\* ago than the event's interval
Due(k) ==
    /\ k \in Pks
    /\ tickets[k].submission # NoSubmission
    /\ "pretalx_rt" \in plugin_list[Submissions[tickets[k].submission].event]
    /\ tickets[k].sync_timestamp # Null
    /\ clock - tickets[k].sync_timestamp
         > rt_settings[Submissions[tickets[k].submission].event].sync_interval

\* C21 (SpecPeriodicLive): when passes keep being run and pulls succeed, a
\* ticket that is due is eventually pulled, which is the only way its
\* sync_timestamp is renewed, also when the pass that should have reached it
\* was ended by the time budget.
C21_DueTicketEventuallyPulled ==
    \A k \in 1..3 : Due(k) ~> ~Due(k)

\* a pass has ended on the time budget, after a pull, before a ticket that
\* is due
C21_Witness ==
    /\ pp.pc = "done"
    /\ pp.err = ""
    /\ pp.pulled # <<>>
    /\ pp.i <= Len(pp.order)
    /\ \E j \in pp.i..Len(pp.order) : Due(pp.order[j].pk)

\* C22 (SpecPeriodicGone): a ticket whose pull fails in every pass does not
\* keep the passes from the others: a due ticket whose remote ticket exists
\* is eventually pulled.
C22_FailingPullStarvesNoTicket ==
    \A k \in 1..2 :
        (Due(k) /\ tickets[k].rt_id \in RtIds) ~> ~Due(k)

----------------------------------------------------------------------------
\* Claims about the signal handlers (SpecHandlers)

\* the positions of the calls named name in a sequence of remote calls
CallsOf(calls, name) == {i \in 1..Len(calls) : calls[i].c = name}

\* the rows that link submission s
RowsOf(s) == {k \in Pks : tickets[k].submission = s}

\* the state-change handler of an enabled event has ended
StateChangeDone ==
    /\ hd.pc = "done"
    /\ hd.op = "submission_state_change"
    /\ is_rt_enabled(hd.event)

MailHandlerDone ==
    /\ hd.pc = "done"
    /\ hd.op = "queuedmail_pre_send"
    /\ is_rt_enabled(hd.event)

Disabled(e) == "pretalx_rt" \notin plugin_list[e]

\* h is a run of one of the three handlers for a disabled event
DisabledHandler(h) ==
    /\ h.op \in {"submission_state_change", "queuedmail_pre_send",
                 "submission_pre_save"}
    /\ Disabled(h.event)

\* the periodic pass is at a ticket of a disabled event
AtDisabledTicket ==
    /\ pp.pc \in {"loop", "pull", "save"}
    /\ pp.i <= Len(pp.order)
    /\ Disabled(Submissions[pp.order[pp.i].submission].event)

\* C17: a handler called for a disabled event returns at once: it issues no
\* remote call and changes no row, no remote ticket and no mail.  The periodic
\* pass pulls no ticket of a disabled event: it steps over it, changing
\* nothing, and goes on with the tickets that follow, so that a pass that
\* ends within its time budget without an exception has pulled every ticket
\* of an enabled event that was due.
C17_DisabledEventUntouched ==
    /\ [](DisabledHandler(hd) => hd.pc = "done" /\ hd.calls = <<>>)
    /\ [][(DisabledHandler(hd) \/ DisabledHandler(hd')) =>
            UNCHANGED <<rt, tickets, mailSent, mailLinks, tasks, am>>]_vars
    /\ [](AtDisabledTicket => pp.pc = "loop")
    /\ [][(AtDisabledTicket /\ ~time_limit_reached(pp.start, clock)
                            /\ pp' # pp) =>
            /\ pp' = [pp EXCEPT !.i = @ + 1]
            /\ UNCHANGED <<rt, tickets, mailSent, mailLinks, tasks>>]_vars
    /\ [](\A j \in 1..Len(pp.pulled) :
            ~Disabled(Submissions[tickets[pp.pulled[j]].submission].event))
    /\ []((pp.pc = "done" /\ pp.err = ""
                          /\ ~time_limit_reached(pp.start, clock)) =>
            \A j \in 1..Len(pp.order) :
               LET e == Submissions[pp.order[j].submission].event
               IN  (~Disabled(e) /\ needs_sync(pp.order[j], e, clock))
                     => \E n \in 1..Len(pp.pulled) :
                          pp.pulled[n] = pp.order[j].pk)

\* a pass has stepped over a ticket of the disabled event and pulled the
\* ticket of the enabled event that followed it
C17_Witness ==
    /\ pp.pc = "done"
    /\ pp.err = ""
    /\ \E j \in 1..Len(pp.order), k \in 1..Len(pp.order) :
          /\ j < k
          /\ Disabled(Submissions[pp.order[j].submission].event)
          /\ ~Disabled(Submissions[pp.order[k].submission].event)
          /\ pp.pulled = <<pp.order[k].pk>>

----------------------------------------------------------------------------
\* Claims about concurrent ticket creation (SpecRace)

\* C14: no two persisted rows of an event carry the same remote ticket id,
\* whatever the interleaving of create_submission_ticket, create_mail_ticket,
\* the submission handlers and sync_queue passes.
C14_OneRowPerRemoteId ==
    \A j \in Pks, k \in Pks :
        (tickets[j].event = tickets[k].event
            /\ tickets[j].rt_id = tickets[k].rt_id) => j = k

\* a sync_queue pass has inserted the row of a remote ticket that a creating
\* operation had made and not yet persisted, and the operation's own insert
\* has been refused
C14_Witness ==
    /\ hd.pc = "done"
    /\ hd.err = "IntegrityError"
    /\ hd.ticket.pk = 0
    /\ \E k \in Pks : /\ tickets[k].rt_id = hd.ticket.rt_id
                       /\ tickets[k].event = hd.ticket.event
    /\ sq.pc # "idle"

----------------------------------------------------------------------------
\* Claims about concurrent handlers (SpecTwoHandlers)

\* the successful rt.create_ticket calls of a handler run
Created(h) == {i \in 1..Len(h.calls) : h.calls[i].c = "create_ticket" /\ h.calls[i].ok}

----------------------------------------------------------------------------
\* Claims about RTBackend.send_messages (SpecBackend)

\* the remote calls send_messages issued for message i of the batch
CallsOfMessage(i) == SelectSeq(sm.calls, LAMBDA x : x.msg = i)

\* send_messages is through with message i: it went on to the next message,
\* returned or raised
Handled(i) ==
    /\ sm.pc # "idle"
    /\ \/ sm.i > i
       \/ sm.i = i /\ sm.pc = "done"

\* C30 (SpecBackend): every message of a batch is handled by itself.  For a
\* message with the X-Pretalx-RT-Ticket header no call creates a ticket, every
\* call is on the named ticket through the client of the message's own event,
\* and once send_messages is through with the message the snapshot read
\* get_ticket has been issued, followed, if it succeeded, by the override
\* edit and the restore edit.  For a message without the header the first
\* call, and only the first, is create_ticket.
C30_MessagesHandledAlone ==
    \A i \in 1..Len(sm.batch) :
        LET message == sm.batch[i]
            cs      == CallsOfMessage(i)
        IN  /\ message.ticket_id # NoHeader =>
                /\ \A j \in 1..Len(cs) :
                    /\ cs[j].c # "create_ticket"
                    /\ cs[j].rid = message.ticket_id
                    /\ cs[j].client = message.event
                /\ Handled(i) =>
                    /\ cs # <<>>
                    /\ cs[1].c = "get_ticket"
                    /\ cs[1].ok =>
                        /\ Len(cs) >= 3
                        /\ cs[2].c = "edit_ticket"
                        /\ cs[Len(cs)].c = "edit_ticket"
            /\ (message.ticket_id = NoHeader /\ (Handled(i) \/ cs # <<>>)) =>
                /\ cs # <<>>
                /\ cs[1].c = "create_ticket"
                /\ \A j \in 2..Len(cs) : cs[j].c # "create_ticket"

====
